---- MODULE Spec2Model ----
(***************************************************************************)
(* Model of the design tool: the pinia store (src/unnamed/part_000), the   *)
(* DesignTool controller (src/src/scripts/design-tool/design-tool.ts) and  *)
(* the toolbar (src/unnamed/part_001).                                     *)
(*                                                                         *)
(* Numbers are exact rationals <<n, d>> (d > 0, lowest terms); JavaScript  *)
(* doubles are idealised to them, Math.sqrt is rounded down to a fixed     *)
(* number of decimals.                                                     *)
(***************************************************************************)
EXTENDS Integers, Sequences, FiniteSets, TLC

(***************************************************************************)
(* Rational arithmetic.                                                    *)
(***************************************************************************)
\* The one element of a singleton set.  Binding a name to the element of
\* {e} computes e once, however often the name is then used.
Only(S) == CHOOSE x \in S : TRUE

Abs(n) == IF n < 0 THEN -n ELSE n

RECURSIVE GCD(_, _)
GCD(a, b) == IF b = 0 THEN a ELSE GCD(b, a % b)

\* A number is <<n, d>> in lowest terms with d > 0; the IEEE specials are
\* <<1, 0>> (Infinity), <<-1, 0>> (-Infinity) and <<0, 0>> (NaN).
Rat(n, d) ==
  IF d = 0 THEN <<(IF n > 0 THEN 1 ELSE IF n < 0 THEN -1 ELSE 0), 0>>
  ELSE LET s == IF d < 0 THEN -1 ELSE 1
           g == GCD(Abs(n), Abs(d))
       IN  <<(s * n) \div g, (s * d) \div g>>

Num(n) == <<n, 1>>
Infinity == <<1, 0>>
NegInfinity == <<-1, 0>>
NaN == <<0, 0>>
IsNaN(a) == a = NaN
IsFinite(a) == a[2] # 0

RAdd(a, b) ==
  IF a[2] = 0 /\ b[2] = 0 THEN (IF a = b THEN a ELSE NaN)
  ELSE Rat(a[1] * b[2] + b[1] * a[2], a[2] * b[2])
RNeg(a) == <<-a[1], a[2]>>
RSub(a, b) == RAdd(a, RNeg(b))
RMul(a, b) == Rat(a[1] * b[1], a[2] * b[2])
RDiv(a, b) ==
  IF a[2] = 0 /\ b[2] = 0 THEN NaN
  ELSE Rat(a[1] * b[2], a[2] * b[1])
RLt(a, b) ==
  /\ ~IsNaN(a) /\ ~IsNaN(b)
  /\ IF a[2] = 0 /\ b[2] = 0 THEN a[1] < b[1] ELSE a[1] * b[2] < b[1] * a[2]
RLe(a, b) == ~IsNaN(a) /\ ~IsNaN(b) /\ (a = b \/ RLt(a, b))
RAbs(a) == <<Abs(a[1]), a[2]>>
\* Math.min / Math.max: NaN when an argument is NaN.
RMin(a, b) == IF IsNaN(a) \/ IsNaN(b) THEN NaN ELSE IF RLe(a, b) THEN a ELSE b
RMax(a, b) == IF IsNaN(a) \/ IsNaN(b) THEN NaN ELSE IF RLe(a, b) THEN b ELSE a

\* Math.sqrt, rounded down to two decimals.
RECURSIVE ISqrtBetween(_, _, _)
ISqrtBetween(n, lo, hi) ==
  IF lo >= hi THEN lo
  ELSE LET mid == (lo + hi + 1) \div 2
       IN  IF mid * mid <= n THEN ISqrtBetween(n, mid, hi)
           ELSE ISqrtBetween(n, lo, mid - 1)

MathSqrt(a) ==
  LET scaled == (a[1] * 10000) \div a[2]
  IN  Rat(ISqrtBetween(scaled, 0, 40000), 100)

(***************************************************************************)
(* d3.scaleLinear and d3.zoomTransform, as the controller uses them.       *)
(***************************************************************************)
\* scale(v): domain value to range value.
ScaleApply(s, v) ==
  RAdd(s.range[1],
       RMul(RDiv(RSub(v, s.domain[1]), RSub(s.domain[2], s.domain[1])),
            RSub(s.range[2], s.range[1])))

\* scale.invert(r): range value to domain value.
ScaleInvert(s, r) ==
  RAdd(s.domain[1],
       RMul(RDiv(RSub(r, s.range[1]), RSub(s.range[2], s.range[1])),
            RSub(s.domain[2], s.domain[1])))

zoomIdentity == [k |-> Num(1), x |-> Num(0), y |-> Num(0)]

\* transform.invertX / invertY: svg pixel to main-group coordinate.
InvertX(t, px) == RDiv(RSub(px, t.x), t.k)
InvertY(t, py) == RDiv(RSub(py, t.y), t.k)

\* transform.applyX / applyY: main-group coordinate to svg pixel, the
\* effect of the main group's transform attribute.
ApplyX(t, gx) == RAdd(RMul(gx, t.k), t.x)
ApplyY(t, gy) == RAdd(RMul(gy, t.k), t.y)

\* rescaleX that forgets the translation of the transform.
rescaleXUntranslated(t, s) ==
  [domain |-> <<ScaleInvert(s, RDiv(s.range[1], t.k)),
                ScaleInvert(s, RDiv(s.range[2], t.k))>>,
   range |-> s.range]

\* transform.rescaleX(scale): the scale with its domain moved to what the
\* transformed range shows.
rescaleX(t, s) ==
  [domain |-> <<ScaleInvert(s, InvertX(t, s.range[1])),
                ScaleInvert(s, InvertX(t, s.range[2]))>>,
   range |-> s.range]

rescaleY(t, s) ==
  [domain |-> <<ScaleInvert(s, InvertY(t, s.range[1])),
                ScaleInvert(s, InvertY(t, s.range[2]))>>,
   range |-> s.range]

\* transform.translate(x, y) and transform.scale(k).
TransformTranslate(t, x, y) ==
  [k |-> t.k, x |-> RAdd(t.x, RMul(t.k, x)), y |-> RAdd(t.y, RMul(t.k, y))]

TransformScale(t, k) == [k |-> RMul(t.k, k), x |-> t.x, y |-> t.y]

(***************************************************************************)
(* The store: src/unnamed/part_000.                                        *)
(***************************************************************************)
Null == <<>>
Undefined == <<>>
NoElementId == 0

SELECT == "select"
POINT == "point"
LINE == "line"
CIRCLE == "circle"
RECTANGLE == "rectangle"
ToolType == {SELECT, POINT, LINE, CIRCLE, RECTANGLE}

\* The fields a GraphicElement can carry; a field an element does not
\* have is Undefined.
ElementKeys == {"id", "type", "x", "y", "x2", "y2", "radius", "width", "height"}

GraphicElement(id, type, x, y, x2, y2, radius, w, h) ==
  [id |-> id, type |-> type, x |-> x, y |-> y, x2 |-> x2, y2 |-> y2,
   radius |-> radius, width |-> w, height |-> h]

DefaultAxis == "visible"
EmptyOutline == [digLines |-> <<>>, blastingDesignLibraryParts |-> <<>>]
DataKeys == {"axis", "initialOutline", "userElements", "selectedIds"}

DefaultData ==
  [axis |-> DefaultAxis, initialOutline |-> EmptyOutline,
   userElements |-> <<>>, selectedIds |-> <<>>]

\* localStorage.getItem answers null (NoEntry) or a string, or throws.  A
\* string is represented by the JSON value it spells, or is InvalidJson or
\* the empty string.  A JSON object is JsonObject of a set of members
\* <<key, "truthy", value>> or <<key, "falsy", text>>, text spelling one of
\* the falsy values null, false, 0 and "".  JsonNull is the text "null",
\* JsonNumber a text spelling a number other than 0.
NoEntry == <<"no entry">>
GetItemThrows == <<"getItem throws">>
EmptyText == <<"empty string">>
InvalidJson == <<"invalid json">>
JsonNull == <<"null">>
JsonNumber == <<"number">>
JsonObject(members) == <<"object", members>>
IsJsonObject(ls) == ls[1] = "object"
FalsyTexts == {"null", "false", "0", "\"\""}

\* JSON.stringify of an object: the members whose value is defined.
OptionalKeys == {"x2", "y2", "radius", "width", "height"}

NumberKeys == {"x", "y", "x2", "y2", "radius", "width", "height"}

\* JSON has no text for NaN and the infinities: stringify writes null.
NumberToJson(v) == IF v[2] = 0 THEN JsonNull ELSE v

\* A serialiser that writes null for a member that is undefined.
ElementToJsonWithNulls(el) ==
  {<<k, IF k \in OptionalKeys /\ el[k] \in {Undefined, JsonNull} THEN JsonNull
        ELSE IF k \in NumberKeys THEN NumberToJson(el[k]) ELSE el[k]>> :
     k \in ElementKeys}

ElementToJson(el) ==
  {<<k, IF k \in NumberKeys THEN NumberToJson(el[k]) ELSE el[k]>> :
     k \in {kk \in ElementKeys : kk \in OptionalKeys => el[kk] # Undefined}}

JsonHas(json, key) == \E pair \in json : pair[1] = key
JsonGet(json, key) == (CHOOSE pair \in json : pair[1] = key)[2]

\* JSON.parse of an element object: a missing member reads undefined.
JsonToElement(json) ==
  [k \in ElementKeys |-> IF JsonHas(json, k) THEN JsonGet(json, k) ELSE Undefined]

\* The in-memory fields are objects and arrays, hence truthy.
JsonStringify(d) ==
  JsonObject({<<"axis", "truthy", d.axis>>,
              <<"initialOutline", "truthy", d.initialOutline>>,
              <<"userElements", "truthy",
                [i \in 1..Len(d.userElements) |-> ElementToJson(d.userElements[i])]>>,
              <<"selectedIds", "truthy", d.selectedIds>>})

\* parsed.field ?? fallback: only a missing or null member is replaced.
OrDefaultNullish(json, key, fallback) ==
  IF \E member \in json : member[1] = key /\ ~(member[2] = "falsy" /\ member[3] = "null")
  THEN (CHOOSE member \in json : member[1] = key)[3]
  ELSE fallback

\* parsed.field || fallback: a missing member is undefined, hence falsy.
\* Arrays and objects are truthy even when empty.
OrDefault(json, key, fallback) ==
  IF \E member \in json : member[1] = key /\ member[2] = "truthy"
  THEN (CHOOSE member \in json : member[1] = key)[3]
  ELSE fallback

\* No entry or the empty string: the default data.  getItem throwing, a
\* text that does not parse, or the text "null" (reading a member of null
\* throws): the exception is caught and the default data returned.  A
\* number has no members, so every field gets its default.
loadPersistedData(ls) ==
  IF ~IsJsonObject(ls) THEN DefaultData
  ELSE LET parsed == ls[2]
           els == OrDefault(parsed, "userElements", <<>>)
       IN  [axis |-> OrDefault(parsed, "axis", DefaultAxis),
            initialOutline |-> OrDefault(parsed, "initialOutline", EmptyOutline),
            userElements |-> [i \in 1..Len(els) |-> JsonToElement(els[i])],
            selectedIds |-> OrDefault(parsed, "selectedIds", <<>>)]

\* A save that loses the entry when setItem throws.
saveOrLoseEntry(ls, d, setItemThrows) ==
  IF setItemThrows THEN NoEntry ELSE JsonStringify(d)

\* setItem throws when the quota is exceeded; the exception is caught and
\* the entry keeps its old value.
saveToLocalStorage(ls, d, setItemThrows) ==
  IF setItemThrows THEN ls ELSE JsonStringify(d)

isDrawingTool(tool) == tool \in {POINT, LINE, CIRCLE, RECTANGLE}

SeqToSet(s) == {s[i] : i \in 1..Len(s)}

Includes(ids, id) == \E i \in 1..Len(ids) : ids[i] = id

\* Array.prototype.findIndex / indexOf: the first match, 0 when none.
FindIndex(els, id) ==
  IF \E i \in 1..Len(els) : els[i].id = id
  THEN CHOOSE i \in 1..Len(els) :
         els[i].id = id /\ \A j \in 1..(i - 1) : els[j].id # id
  ELSE 0

IndexOf(ids, id) ==
  IF Includes(ids, id)
  THEN CHOOSE i \in 1..Len(ids) : ids[i] = id /\ \A j \in 1..(i - 1) : ids[j] # id
  ELSE 0

Splice(s, i) == [j \in 1..(Len(s) - 1) |-> IF j < i THEN s[j] ELSE s[j + 1]]

getSelectedElements(d) ==
  LET Selected(el) == Includes(d.selectedIds, el.id)
  IN  SelectSeq(d.userElements, Selected)

\* The store actions, as functions from the data to the new data; the
\* caller writes the result to localStorage where the action saves.
addElement(d, element) ==
  [d EXCEPT !.userElements = Append(@, element)]

selectElement(d, id) ==
  IF Includes(d.selectedIds, id) THEN d
  ELSE [d EXCEPT !.selectedIds = Append(@, id)]

removeFromSelection(d, id) ==
  LET index == IndexOf(d.selectedIds, id)
  IN  IF index > 0 THEN [d EXCEPT !.selectedIds = Splice(@, index)] ELSE d

clearSelection(d) == [d EXCEPT !.selectedIds = <<>>]

removeElement(d, id) ==
  LET index == FindIndex(d.userElements, id)
      removed == IF index > 0 THEN [d EXCEPT !.userElements = Splice(@, index)] ELSE d
  IN  removeFromSelection(removed, id)

\* Object.assign(element, updates) on the first element with the id;
\* updates is a set of <<key, value>> pairs.
Assign(element, updates) ==
  [k \in ElementKeys |->
     IF JsonHas(updates, k) THEN JsonGet(updates, k) ELSE element[k]]

updateElementFound(d, id) == FindIndex(d.userElements, id) > 0

updateElement(d, id, updates) ==
  LET index == FindIndex(d.userElements, id)
  IN  IF index > 0
      THEN [d EXCEPT !.userElements[index] = Assign(@, updates)]
      ELSE d

\* A clear that resets the outline with the elements.
clearEverything(d) ==
  [d EXCEPT !.userElements = <<>>, !.selectedIds = <<>>, !.initialOutline = EmptyOutline]

clearUserElementsData(d) == [d EXCEPT !.userElements = <<>>, !.selectedIds = <<>>]

setInitialOutline(d, outline) == [d EXCEPT !.initialOutline = outline]

(***************************************************************************)
(* The controller's pure computations: design-tool.ts.                     *)
(***************************************************************************)
MarginPx == 20
YRange == 20
margin == [top |-> Num(MarginPx), right |-> Num(MarginPx),
           bottom |-> Num(MarginPx), left |-> Num(MarginPx)]

\* setupScales with the horizontal range fixed to the vertical one.
setupScalesSquare(w, h) ==
  LET effectiveHeight == RSub(RSub(h, margin.top), margin.bottom)
      unit == RDiv(effectiveHeight, Num(YRange))
  IN  [baseUnitPixels |-> unit,
       xScale |-> [domain |-> <<Num(-10), Num(10)>>,
                   range |-> <<margin.left, RSub(w, margin.right)>>],
       yScale |-> [domain |-> <<Num(-10), Num(10)>>,
                   range |-> <<RSub(h, margin.bottom), margin.top>>]]

\* setupScales: the base scales and baseUnitPixels for a container size.
setupScales(w, h) ==
  LET effectiveWidth == RSub(RSub(w, margin.left), margin.right)
      effectiveHeight == RSub(RSub(h, margin.top), margin.bottom)
      yRange == Num(YRange)
      unit == RDiv(effectiveHeight, yRange)
      xRange == RDiv(effectiveWidth, unit)
  IN  [baseUnitPixels |-> unit,
       xScale |-> [domain |-> <<RDiv(RNeg(xRange), Num(2)), RDiv(xRange, Num(2))>>,
                   range |-> <<margin.left, RSub(w, margin.right)>>],
       yScale |-> [domain |-> <<Num(-10), Num(10)>>,
                   range |-> <<RSub(h, margin.bottom), margin.top>>]]

\* The data coordinates of svg pixel p under transform t:
\* transform.rescaleX(xScale).invert(x), transform.rescaleY(yScale).invert(y).
PointerToData(t, xs, ys, p) ==
  [x |-> ScaleInvert(rescaleX(t, xs), Num(p[1])),
   y |-> ScaleInvert(rescaleY(t, ys), Num(p[2]))]

\* scaleExtent([1 / 3, 3]).
ScaleExtentMin == Rat(1, 3)
ScaleExtentMax == Num(3)

\* A wheel handler that does not clamp the scale.
WheelTransformUnclamped(t, p, factor) ==
  LET k == RMul(t.k, factor)
      p1 == <<InvertX(t, Num(p[1])), InvertY(t, Num(p[2]))>>
  IN  [k |-> k,
       x |-> RSub(Num(p[1]), RMul(p1[1], k)),
       y |-> RSub(Num(p[2]), RMul(p1[2], k))]

\* d3-zoom's wheel handler: the scale multiplied by the wheel factor and
\* clamped to the scale extent, the point under the pointer kept in place.
WheelTransform(t, p, factor) ==
  LET k == RMax(ScaleExtentMin, RMin(ScaleExtentMax, RMul(t.k, factor)))
      p1 == <<InvertX(t, Num(p[1])), InvertY(t, Num(p[2]))>>
  IN  [k |-> k,
       x |-> RSub(Num(p[1]), RMul(p1[1], k)),
       y |-> RSub(Num(p[2]), RMul(p1[2], k))]

\* d3-zoom's mouse pan: the main-group point grabbed at mousedown follows
\* the pointer.
PanTransform(t, grabbed, p) ==
  [k |-> t.k,
   x |-> RSub(Num(p[1]), RMul(grabbed[1], t.k)),
   y |-> RSub(Num(p[2]), RMul(grabbed[2], t.k))]

\* The zoom filter: whether d3-zoom handles an event of the given type.
ZoomFilter(tool, draggingElement, draggingHandle, eventType) ==
  IF isDrawingTool(tool) THEN eventType = "wheel"
  ELSE IF draggingElement \/ draggingHandle THEN eventType = "wheel"
  ELSE TRUE

\* A tick spacing table whose finest level starts above 2.5.
calculateTickSpacingAbove(zoomScale) ==
  IF RLt(Rat(5, 2), zoomScale) THEN [major |-> Num(1), minor |-> Rat(1, 5)]
  ELSE IF RLe(Rat(3, 2), zoomScale) THEN [major |-> Num(1), minor |-> Rat(1, 2)]
  ELSE IF RLe(Num(1), zoomScale) THEN [major |-> Num(2), minor |-> Rat(1, 2)]
  ELSE IF RLe(Rat(1, 2), zoomScale) THEN [major |-> Num(5), minor |-> Num(1)]
  ELSE [major |-> Num(10), minor |-> Num(2)]

\* calculateOptimalTickSpacing: the thresholds 2.5, 1.5, 1 and 0.5 are exact
\* in binary; the literal 0.2 is taken as the rational 1/5.
calculateOptimalTickSpacing(zoomScale) ==
  IF RLe(Rat(5, 2), zoomScale) THEN [major |-> Num(1), minor |-> Rat(1, 5)]
  ELSE IF RLe(Rat(3, 2), zoomScale) THEN [major |-> Num(1), minor |-> Rat(1, 2)]
  ELSE IF RLe(Num(1), zoomScale) THEN [major |-> Num(2), minor |-> Rat(1, 2)]
  ELSE IF RLe(Rat(1, 2), zoomScale) THEN [major |-> Num(5), minor |-> Num(1)]
  ELSE [major |-> Num(10), minor |-> Num(2)]

\* parseFloat of a decimal text <<digits, decimals>>: digits / 10^decimals.
RECURSIVE Pow10(_)
Pow10(n) == IF n = 0 THEN 1 ELSE 10 * Pow10(n - 1)
parseFloat(text) == Rat(text[1], Pow10(text[2]))

\* JavaScript's %: the remainder has the sign of the dividend.
JsMod(a, m) ==
  LET q == (Abs(a[1]) * m[2]) \div (a[2] * m[1])
      r == RSub(RAbs(a), RMul(Num(q), m))
  IN  IF a[1] < 0 THEN RNeg(r) ELSE r

normalize(angle) == JsMod(RAdd(JsMod(angle, Num(360)), Num(360)), Num(360))

\* An angle test that does not handle ranges passing through 0 degrees.
angleInRangeNoWrap(targetAngle, startAngle, endAngle) ==
  /\ RLe(normalize(startAngle), normalize(targetAngle))
  /\ RLe(normalize(targetAngle), normalize(endAngle))

angleInRange(targetAngle, startAngle, endAngle) ==
  LET target == normalize(targetAngle)
      start == normalize(startAngle)
      end == normalize(endAngle)
  IN  IF RLe(start, end) THEN RLe(start, target) /\ RLe(target, end)
      ELSE RLe(start, target) \/ RLe(target, end)

\* Math.cos / Math.sin at the four extreme angles.
CosDeg(angle) == CASE angle = 0 -> Num(1) [] angle = 180 -> Num(-1) [] OTHER -> Num(0)
SinDeg(angle) == CASE angle = 90 -> Num(1) [] angle = 270 -> Num(-1) [] OTHER -> Num(0)

IsArc(geometry) ==
  geometry.r # Null /\ geometry.startAngle # Null /\ geometry.endAngle # Null

\* The points calculateBounds folds into the bounds for one geometry: its
\* two ends and, for an arc, the extreme points its angle range spans.
ExtremeAngles == {0, 90, 180, 270}

GeometryPoints(geometry) ==
  {<<parseFloat(geometry.sx), parseFloat(geometry.sy)>>,
   <<parseFloat(geometry.ex), parseFloat(geometry.ey)>>}
  \cup
  IF IsArc(geometry)
  THEN LET radius == parseFloat(geometry.r)
           centerX == IF geometry.x = Null THEN Num(0) ELSE parseFloat(geometry.x)
           centerY == IF geometry.y = Null THEN Num(0) ELSE parseFloat(geometry.y)
       IN  {<<RAdd(centerX, RMul(radius, CosDeg(angle))),
              RAdd(centerY, RMul(radius, SinDeg(angle)))>> :
              angle \in {a \in ExtremeAngles :
                           angleInRange(Num(a), parseFloat(geometry.startAngle),
                                        parseFloat(geometry.endAngle))}}
  ELSE {}

\* Math.min / Math.max folded from Infinity / -Infinity over the values.
MinOf(values) ==
  IF values = {} THEN Infinity ELSE CHOOSE v \in values : \A w \in values : RLe(v, w)
MaxOf(values) ==
  IF values = {} THEN NegInfinity ELSE CHOOSE v \in values : \A w \in values : RLe(w, v)

calculateBounds(testData) ==
  LET points == UNION {GeometryPoints(testData.digLines[i]) :
                         i \in 1..Len(testData.digLines)}
  IN  [minX |-> MinOf({pt[1] : pt \in points}), maxX |-> MaxOf({pt[1] : pt \in points}),
       minY |-> MinOf({pt[2] : pt \in points}), maxY |-> MaxOf({pt[2] : pt \in points})]

\* d3.zoomIdentity.translate(cx, cy).scale(k).translate(-cx, (-cy * 2) / 3)
FitTransform(k, cx, cy) ==
  Only({TransformTranslate(scaled, RNeg(cx), RDiv(RMul(RNeg(cy), Num(2)), Num(3))) :
          scaled \in {TransformScale(moved, k) :
                        moved \in {TransformTranslate(zoomIdentity, cx, cy)}}})

\* Math.max(1 / 3, Math.min(3, scale))
ClampScale(scale) ==
  Only({RMax(ScaleExtentMin, low) : low \in {RMin(ScaleExtentMax, scale)}})

\* fitToView: Null when it returns before building a transform, else the
\* transform it caches as initialTransform and animates to.
fitToView(testData, w, h, unit) ==
  LET effectiveHeight == RSub(RSub(h, margin.top), margin.bottom)
      targetHeight == RDiv(RMul(effectiveHeight, Num(2)), Num(3))
      effectiveCenterX == RDiv(RAdd(margin.left, RSub(w, margin.right)), Num(2))
      effectiveCenterY == RDiv(RAdd(margin.top, RSub(h, margin.bottom)), Num(2))
      Fit(bounds) ==
        Only({IF boundsWidth = Num(0) \/ boundsHeight = Num(0) THEN Null
              ELSE Only({FitTransform(clampedScale, cx, cy) :
                           clampedScale \in
                             {ClampScale(scale) :
                                scale \in {RDiv(targetHeight, product) :
                                             product \in {RMul(boundsHeight, unit)}}},
                           cx \in {effectiveCenterX}, cy \in {effectiveCenterY}}) :
                boundsWidth \in {RSub(bounds.maxX, bounds.minX)},
                boundsHeight \in {RSub(bounds.maxY, bounds.minY)}})
  IN  Only({Fit(bounds) : bounds \in {calculateBounds(testData)}})

(***************************************************************************)
(* Rendering: what renderUserElements leaves in the user-elements group    *)
(* and in the controls group, in main-group coordinates.                   *)
(***************************************************************************)
DefaultPointRadius == Rat(2, 10)

\* element.radius || 0.2
RadiusOrDefault(radius) ==
  IF radius = Undefined \/ radius = Num(0) \/ IsNaN(radius) THEN DefaultPointRadius
  ELSE radius

\* Math.abs(scale(v) - scale(0)): a data length in main-group pixels.
LengthPixels(scale, v) == RAbs(RSub(ScaleApply(scale, v), ScaleApply(scale, Num(0))))

renderElement(element, xs, ys, selectedIds) ==
  LET isSelected == Includes(selectedIds, element.id)
      screenX == ScaleApply(xs, element.x)
      screenY == ScaleApply(ys, element.y)
  IN  CASE element.type = "point" ->
             [id |-> element.id, tag |-> "circle", cx |-> screenX, cy |-> screenY,
              r |-> LengthPixels(xs, RadiusOrDefault(element.radius))]
        [] element.type = "line" ->
             [id |-> element.id, tag |-> "line", x1 |-> screenX, y1 |-> screenY,
              x2 |-> ScaleApply(xs, element.x2), y2 |-> ScaleApply(ys, element.y2),
              strokeWidth |-> IF isSelected THEN 3 ELSE 2]
        [] element.type = "circle" ->
             [id |-> element.id, tag |-> "circle", cx |-> screenX, cy |-> screenY,
              r |-> LengthPixels(xs, element.radius)]
        [] element.type = "rectangle" ->
             LET x2 == ScaleApply(xs, RAdd(element.x, element.width))
                 y2 == ScaleApply(ys, RAdd(element.y, element.height))
             IN  [id |-> element.id, tag |-> "rect",
                  x |-> RMin(screenX, x2), y |-> RMin(screenY, y2),
                  width |-> LengthPixels(xs, element.width),
                  height |-> LengthPixels(ys, element.height)]

Handle(elementId, type, x, y) == [elementId |-> elementId, type |-> type, x |-> x, y |-> y]

renderRectangleControls(element, xs, ys) ==
  LET x == ScaleApply(xs, element.x)
      y == ScaleApply(ys, element.y)
      x2 == ScaleApply(xs, RAdd(element.x, element.width))
      y2 == ScaleApply(ys, RAdd(element.y, element.height))
  IN  <<Handle(element.id, "resize-tl", RMin(x, x2), RMin(y, y2)),
        Handle(element.id, "resize-tr", RMax(x, x2), RMin(y, y2)),
        Handle(element.id, "resize-bl", RMin(x, x2), RMax(y, y2)),
        Handle(element.id, "resize-br", RMax(x, x2), RMax(y, y2))>>

renderCircleControls(element, xs, ys) ==
  <<Handle(element.id, "circle-resize",
           RAdd(ScaleApply(xs, element.x), LengthPixels(xs, element.radius)),
           ScaleApply(ys, element.y))>>

renderLineControls(element, xs, ys) ==
  <<Handle(element.id, "line-start", ScaleApply(xs, element.x), ScaleApply(ys, element.y)),
    Handle(element.id, "line-end", ScaleApply(xs, element.x2), ScaleApply(ys, element.y2))>>

renderPointControls(element, xs, ys) ==
  <<Handle(element.id, "point-resize",
           RAdd(ScaleApply(xs, element.x),
                LengthPixels(xs, RadiusOrDefault(element.radius))),
           ScaleApply(ys, element.y))>>

renderControlsForElement(element, xs, ys) ==
  CASE element.type = "rectangle" -> renderRectangleControls(element, xs, ys)
    [] element.type = "circle" -> renderCircleControls(element, xs, ys)
    [] element.type = "line" -> renderLineControls(element, xs, ys)
    [] element.type = "point" -> renderPointControls(element, xs, ys)
    [] OTHER -> <<>>

RECURSIVE ControlsOf(_, _, _)
ControlsOf(elements, xs, ys) ==
  IF elements = <<>> THEN <<>>
  ELSE renderControlsForElement(Head(elements), xs, ys) \o ControlsOf(Tail(elements), xs, ys)

\* renderControls: the handles left in the controls group.
renderControls(d, tool, xs, ys) ==
  IF tool # SELECT THEN <<>>
  ELSE ControlsOf(getSelectedElements(d), xs, ys)

\* renderUserElements: the groups left in the user-elements group.
renderElements(d, xs, ys) ==
  [i \in 1..Len(d.userElements) |-> renderElement(d.userElements[i], xs, ys, d.selectedIds)]

(***************************************************************************)
(* Event targets: which node of the svg a pointer position hits.  Later    *)
(* siblings paint over earlier ones and the controls group is above the    *)
(* user-elements group.                                                    *)
(***************************************************************************)
HandleHalfSize == 4

\* Pixel lengths in tenths of a pixel, rounded down.
Tenths(a) == (a[1] * 10) \div a[2]

HitsHandle(handle, gx, gy) ==
  /\ RLe(RAbs(RSub(gx, handle.x)), Num(HandleHalfSize))
  /\ RLe(RAbs(RSub(gy, handle.y)), Num(HandleHalfSize))

HitsNode(node, gx, gy) ==
  CASE node.tag = "circle" ->
         LET dx == Tenths(RAbs(RSub(gx, node.cx)))
             dy == Tenths(RAbs(RSub(gy, node.cy)))
             r == Tenths(node.r)
         IN  dx <= r /\ dy <= r /\ dx * dx + dy * dy <= r * r
    [] node.tag = "rect" ->
         /\ RLe(node.x, gx) /\ RLe(gx, RAdd(node.x, node.width))
         /\ RLe(node.y, gy) /\ RLe(gy, RAdd(node.y, node.height))
    [] node.tag = "line" ->
         \* on the centre line of the stroke, between its ends
         LET dx == RSub(node.x2, node.x1)
             dy == RSub(node.y2, node.y1)
             vx == RSub(gx, node.x1)
             vy == RSub(gy, node.y1)
             len2 == RAdd(RMul(dx, dx), RMul(dy, dy))
             dot == RAdd(RMul(vx, dx), RMul(vy, dy))
         IN  /\ len2 # Num(0)
             /\ RSub(RMul(dx, vy), RMul(dy, vx)) = Num(0)
             /\ RLe(Num(0), dot) /\ RLe(dot, len2)

NoTarget == [kind |-> "svg"]

\* The topmost node under main-group point (gx, gy).
HitTarget(nodes, handles, gx, gy) ==
  LET hitHandles == {i \in 1..Len(handles) : HitsHandle(handles[i], gx, gy)}
      hitNodes == {i \in 1..Len(nodes) : HitsNode(nodes[i], gx, gy)}
      Top(S) == CHOOSE i \in S : \A j \in S : j <= i
  IN  IF hitHandles # {}
      THEN [kind |-> "handle", elementId |-> handles[Top(hitHandles)].elementId,
            type |-> handles[Top(hitHandles)].type]
      ELSE IF hitNodes # {}
      THEN [kind |-> "element", elementId |-> nodes[Top(hitNodes)].id]
      ELSE NoTarget

(***************************************************************************)
(* Bounds and inputs of the model.                                         *)
(***************************************************************************)
\* Element ids ever handed out, those of the persisted elements included.
MaxElements == 1
\* Operations other than presses, releases and clicks: toolbar switches,
\* mouse moves that change an element by dragging it or one of its handles,
\* wheel zooms, pan gestures, resizes, loads of test data, clears, reloads
\* and destroy.
MaxOperations == 2

\* Pointer positions, in svg pixels.
Pixels == {<<120, 120>>, <<140, 105>>}
\* Container sizes, <<width, height>>.
Sizes == {<<340, 240>>, <<440, 340>>}
InitialSize == <<340, 240>>
\* Scale factors of one wheel event.
WheelFactors == {Rat(1, 2), Num(4)}

Geometry(sx, sy, ex, ey, r, startAngle, endAngle, x, y) ==
  [sx |-> sx, sy |-> sy, ex |-> ex, ey |-> ey, r |-> r,
   startAngle |-> startAngle, endAngle |-> endAngle, x |-> x, y |-> y]

StraightLine(sx, sy, ex, ey) == Geometry(sx, sy, ex, ey, Null, Null, Null, Null, Null)

\* Outlines as test.json spells them: decimal texts <<digits, decimals>>.
\* A 12 x 8 outline with an arc on top, and an outline with no dig lines.
ArchOutline ==
  [digLines |->
     <<StraightLine(<<-60, 1>>, <<-20, 1>>, <<60, 1>>, <<-20, 1>>),
       StraightLine(<<60, 1>>, <<-20, 1>>, <<60, 1>>, <<0, 0>>),
       Geometry(<<60, 1>>, <<0, 0>>, <<-60, 1>>, <<0, 0>>,
                <<6, 0>>, <<0, 0>>, <<180, 0>>, <<0, 0>>, <<0, 0>>),
       StraightLine(<<-60, 1>>, <<0, 0>>, <<-60, 1>>, <<-20, 1>>)>>,
   blastingDesignLibraryParts |-> <<>>]

PartsOnlyOutline ==
  [digLines |-> <<>>,
   blastingDesignLibraryParts |->
     <<[partName |-> "cut", parts |-> <<StraightLine(<<0, 0>>, <<0, 0>>, <<1, 0>>, <<1, 0>>)>>]>>]

TestDatas == {ArchOutline, PartsOnlyOutline}

\* What localStorage holds when the page opens: nothing, or the data a
\* previous session saved.
PersistedRectangle ==
  GraphicElement(1, "rectangle", Num(-5), Num(0), Undefined, Undefined, Undefined,
                 Num(2), Rat(3, 2))

InitialStorage ==
  {NoEntry,
   JsonStringify([DefaultData EXCEPT !.userElements = <<PersistedRectangle>>])}

(***************************************************************************)
(* State.                                                                  *)
(***************************************************************************)
VARIABLES
  \* the store
  currentTool, isDrawing, data,
  \* localStorage's entry 'design-tool-data', and whether setItem throws
  localStorage, setItemThrows,
  \* the controller: container size, scales, viewport
  svg, width, height, xScale, yScale, baseUnitPixels,
  transform, initialTransform, cachedTestData,
  \* d3-zoom: the transition under way (its target) and the pan gesture
  zoomTransition, panGesture,
  \* the controller: drawing, element drag, handle drag
  isCurrentlyDrawing, drawingStartPoint, previewElement,
  isDraggingElement, draggedElementId, dragStartPoint, elementStartPosition,
  isDraggingHandle, draggedHandleType, handleStartData,
  \* the DOM: nodes of the user-elements group and of the controls group
  userElementsGroup, controlsGroup,
  \* the mouse: button, the press that holds it down, click about to be sent
  mouse,
  \* ids handed out, operations made
  idCounter, operations,
  \* a function of the program applied on its own: its arguments and result
  probe

storeVars == <<currentTool, isDrawing, data, localStorage, setItemThrows>>
scaleVars == <<width, height, xScale, yScale, baseUnitPixels>>
viewVars == <<transform, initialTransform, cachedTestData, zoomTransition, panGesture>>
drawVars == <<isCurrentlyDrawing, drawingStartPoint, previewElement>>
elementDragVars == <<isDraggingElement, elementStartPosition>>
handleDragVars == <<isDraggingHandle, draggedHandleType, handleStartData>>
sharedDragVars == <<draggedElementId, dragStartPoint>>
dragVars == <<elementDragVars, handleDragVars, sharedDragVars>>
domVars == <<userElementsGroup, controlsGroup>>
envVars == <<mouse, idCounter, operations>>
vars ==
  <<storeVars, svg, scaleVars, viewVars, drawVars, dragVars, domVars, envVars, probe>>

MouseUpState == [button |-> "up", down |-> Null, click |-> Null]

\* The state after the store is created and new DesignTool(container) has
\* run init(): data loaded from localStorage, scales set up, the loaded
\* elements rendered.
Init ==
  /\ localStorage \in InitialStorage
  /\ setItemThrows = FALSE
  /\ currentTool = SELECT
  /\ isDrawing = FALSE
  /\ data = loadPersistedData(localStorage)
  /\ svg = TRUE
  /\ width = InitialSize[1]
  /\ height = InitialSize[2]
  /\ xScale = setupScales(Num(width), Num(height)).xScale
  /\ yScale = setupScales(Num(width), Num(height)).yScale
  /\ baseUnitPixels = setupScales(Num(width), Num(height)).baseUnitPixels
  /\ transform = zoomIdentity
  /\ initialTransform = Null
  /\ cachedTestData = Null
  /\ zoomTransition = Null
  /\ panGesture = Null
  /\ isCurrentlyDrawing = FALSE
  /\ drawingStartPoint = Null
  /\ previewElement = FALSE
  /\ isDraggingElement = FALSE
  /\ draggedElementId = NoElementId
  /\ dragStartPoint = Null
  /\ elementStartPosition = Null
  /\ isDraggingHandle = FALSE
  /\ draggedHandleType = "null"
  /\ handleStartData = Null
  /\ userElementsGroup = renderElements(data, xScale, yScale)
  /\ controlsGroup = renderControls(data, currentTool, xScale, yScale)
  /\ mouse = MouseUpState
  /\ idCounter = Len(data.userElements)
  /\ operations = 0
  /\ probe = Null

(***************************************************************************)
(* The handlers.  Each is the whole handler on the store, the controller   *)
(* and the DOM; the actions below add the mouse and the event dispatch.    *)
(***************************************************************************)
\* store.generateId(): an id no element has had.
generateId == idCounter + 1

\* renderUserElements() when the store holds d and the tool is tool.
RenderUserElements(d, tool, xs, ys) ==
  /\ userElementsGroup' = renderElements(d, xs, ys)
  /\ controlsGroup' = renderControls(d, tool, xs, ys)

\* A store action that ends in saveData().
SaveData(d) ==
  /\ data' = d
  /\ localStorage' = saveToLocalStorage(localStorage, d, setItemThrows)

DragTools == {LINE, CIRCLE, RECTANGLE}

handleMouseDown(p) ==
  IF isDraggingElement \/ isDraggingHandle \/ ~isDrawingTool(currentTool)
  THEN UNCHANGED <<drawVars, isDrawing>>
  ELSE /\ drawingStartPoint' = PointerToData(transform, xScale, yScale, p)
       /\ IF currentTool \in DragTools
          THEN /\ isCurrentlyDrawing' = TRUE
               /\ isDrawing' = TRUE
               /\ previewElement' = TRUE
          ELSE UNCHANGED <<isCurrentlyDrawing, isDrawing, previewElement>>

\* The element finishDrawing adds for the current tool, Null for a tool
\* its switch does not name.
DrawnElement(tool, id, startX, startY, endX, endY) ==
  CASE tool = LINE ->
         GraphicElement(id, "line", startX, startY, endX, endY,
                        Undefined, Undefined, Undefined)
    [] tool = CIRCLE ->
         GraphicElement(id, "circle", startX, startY, Undefined, Undefined,
                        MathSqrt(RAdd(RMul(RSub(endX, startX), RSub(endX, startX)),
                                      RMul(RSub(endY, startY), RSub(endY, startY)))),
                        Undefined, Undefined)
    [] tool = RECTANGLE ->
         GraphicElement(id, "rectangle", RMin(startX, endX), RMin(startY, endY),
                        Undefined, Undefined, Undefined,
                        RAbs(RSub(endX, startX)), RAbs(RSub(endY, startY)))
    [] OTHER -> Null

finishDrawing(startX, startY, endX, endY) ==
  LET element == DrawnElement(currentTool, generateId, startX, startY, endX, endY)
  IN  IF element = Null
      THEN /\ UNCHANGED <<data, localStorage, idCounter>>
           /\ RenderUserElements(data, currentTool, xScale, yScale)
      ELSE /\ idCounter < MaxElements
           /\ idCounter' = idCounter + 1
           /\ SaveData(addElement(data, element))
           /\ RenderUserElements(addElement(data, element), currentTool, xScale, yScale)

createPoint(x, y) ==
  LET element == GraphicElement(generateId, "point", x, y, Undefined, Undefined,
                                DefaultPointRadius, Undefined, Undefined)
  IN  /\ idCounter < MaxElements
      /\ idCounter' = idCounter + 1
      /\ SaveData(addElement(data, element))
      /\ RenderUserElements(addElement(data, element), currentTool, xScale, yScale)

handleMouseUp(p) ==
  IF isDraggingHandle
  THEN /\ isDraggingHandle' = FALSE
       /\ draggedHandleType' = "null"
       /\ handleStartData' = Null
       /\ draggedElementId' = NoElementId
       /\ dragStartPoint' = Null
       /\ UNCHANGED <<elementDragVars, drawVars, isDrawing, data, localStorage,
                      idCounter, domVars>>
  ELSE IF isDraggingElement
  THEN /\ isDraggingElement' = FALSE
       /\ draggedElementId' = NoElementId
       /\ dragStartPoint' = Null
       /\ elementStartPosition' = Null
       /\ UNCHANGED <<handleDragVars, drawVars, isDrawing, data, localStorage,
                      idCounter, domVars>>
  ELSE IF isCurrentlyDrawing /\ drawingStartPoint # Null
  THEN LET end == PointerToData(transform, xScale, yScale, p)
       IN  /\ finishDrawing(drawingStartPoint.x, drawingStartPoint.y, end.x, end.y)
           /\ previewElement' = FALSE
           /\ isCurrentlyDrawing' = FALSE
           /\ isDrawing' = FALSE
           /\ drawingStartPoint' = Null
           /\ UNCHANGED dragVars
  ELSE UNCHANGED <<dragVars, drawVars, isDrawing, data, localStorage, idCounter, domVars>>

\* A click handler that makes a point whatever the tool.
handleClickAnyTool(p) ==
  LET at == PointerToData(transform, xScale, yScale, p)
  IN  createPoint(at.x, at.y)

handleClick(p) ==
  IF currentTool # POINT
  THEN UNCHANGED <<data, localStorage, idCounter, domVars>>
  ELSE LET at == PointerToData(transform, xScale, yScale, p)
       IN  createPoint(at.x, at.y)

handleElementMouseDown(elementId, p) ==
  LET index == FindIndex(data.userElements, elementId)
      selected == selectElement(clearSelection(data), elementId)
  IN  IF index = 0
      THEN UNCHANGED <<dragVars, data, domVars>>
      ELSE /\ isDraggingElement' = TRUE
           /\ draggedElementId' = elementId
           /\ dragStartPoint' = PointerToData(transform, xScale, yScale, p)
           /\ elementStartPosition' = [x |-> data.userElements[index].x,
                                       y |-> data.userElements[index].y]
           /\ data' = selected
           /\ RenderUserElements(selected, currentTool, xScale, yScale)
           /\ UNCHANGED handleDragVars

\* The store after handleElementClick's selection change.
ClickSelection(d, elementId, ctrlOrMeta) ==
  IF Includes(d.selectedIds, elementId) THEN removeFromSelection(d, elementId)
  ELSE selectElement(IF ctrlOrMeta THEN d ELSE clearSelection(d), elementId)

\* handleElementClick in SELECT mode.
handleElementClick(elementId, ctrlOrMeta) ==
  IF isDraggingElement
  THEN UNCHANGED <<data, domVars>>
  ELSE /\ data' = ClickSelection(data, elementId, ctrlOrMeta)
       /\ RenderUserElements(ClickSelection(data, elementId, ctrlOrMeta),
                              currentTool, xScale, yScale)

handleControlMouseDown(elementId, handleType, p) ==
  LET index == FindIndex(data.userElements, elementId)
  IN  IF index = 0
      THEN UNCHANGED dragVars
      ELSE /\ isDraggingHandle' = TRUE
           /\ draggedElementId' = elementId
           /\ draggedHandleType' = handleType
           /\ dragStartPoint' = PointerToData(transform, xScale, yScale, p)
           /\ handleStartData' = data.userElements[index]
           /\ UNCHANGED elementDragVars

MinRectangleSize == Rat(1, 10)
MinCircleRadius == Rat(1, 10)
MinPointRadius == Rat(5, 100)

\* The updates updateRectangleByHandle passes to store.updateElement:
\* the corner opposite the handle is taken from the data at drag start.
RectangleUpdates(originalData, handleType, currentMouseX, currentMouseY) ==
  LET fixedX == IF handleType \in {"resize-tl", "resize-bl"}
                THEN RAdd(originalData.x, originalData.width)
                ELSE originalData.x
      fixedY == IF handleType \in {"resize-tl", "resize-tr"}
                THEN originalData.y
                ELSE RAdd(originalData.y, originalData.height)
      w == RAbs(RSub(currentMouseX, fixedX))
      h == RAbs(RSub(currentMouseY, fixedY))
  IN  IF handleType \in {"resize-tl", "resize-tr", "resize-bl", "resize-br"}
      THEN {<<"x", RMin(currentMouseX, fixedX)>>,
            <<"y", RMin(currentMouseY, fixedY)>>,
            <<"width", IF RLt(w, MinRectangleSize) THEN MinRectangleSize ELSE w>>,
            <<"height", IF RLt(h, MinRectangleSize) THEN MinRectangleSize ELSE h>>}
      ELSE {}

updateRectangleByHandle(d, elementId, handleType, deltaX, deltaY) ==
  updateElement(d, elementId,
                RectangleUpdates(handleStartData, handleType,
                                 RAdd(dragStartPoint.x, deltaX),
                                 RAdd(dragStartPoint.y, deltaY)))

\* An operand of +: undefined becomes NaN.
ToNumber(value) == IF value = Undefined THEN NaN ELSE value

\* The updates updateCircleByHandle passes to store.updateElement.
CircleUpdates(originalData, handleType, deltaX) ==
  LET newRadius == RAdd(ToNumber(originalData.radius), deltaX)
  IN  IF handleType # "circle-resize" THEN {}
      ELSE {<<"radius", IF RLt(newRadius, MinCircleRadius) THEN MinCircleRadius
                        ELSE newRadius>>}

updateCircleByHandle(d, elementId, handleType, deltaX) ==
  IF handleType # "circle-resize" THEN d
  ELSE updateElement(d, elementId, CircleUpdates(handleStartData, handleType, deltaX))

updateLineByHandle(d, elementId, handleType, currentX, currentY) ==
  updateElement(d, elementId,
                IF handleType = "line-start" THEN {<<"x", currentX>>, <<"y", currentY>>}
                ELSE IF handleType = "line-end" THEN {<<"x2", currentX>>, <<"y2", currentY>>}
                ELSE {})

\* The updates updatePointByHandle passes to store.updateElement.
PointUpdates(originalData, handleType, deltaX) ==
  LET newRadius == RAdd(ToNumber(originalData.radius), deltaX)
  IN  IF handleType # "point-resize" THEN {}
      ELSE {<<"radius", IF RLt(newRadius, MinPointRadius) THEN MinPointRadius
                        ELSE newRadius>>}

updatePointByHandle(d, elementId, handleType, deltaX) ==
  IF handleType # "point-resize" THEN d
  ELSE updateElement(d, elementId, PointUpdates(handleStartData, handleType, deltaX))

\* The store data after updateElementByHandle's switch on the element type.
HandleUpdate(d, elementId, handleType, currentX, currentY) ==
  LET element == d.userElements[FindIndex(d.userElements, elementId)]
      deltaX == RSub(currentX, dragStartPoint.x)
      deltaY == RSub(currentY, dragStartPoint.y)
  IN  CASE element.type = "rectangle" ->
             updateRectangleByHandle(d, elementId, handleType, deltaX, deltaY)
        [] element.type = "circle" -> updateCircleByHandle(d, elementId, handleType, deltaX)
        [] element.type = "line" ->
             updateLineByHandle(d, elementId, handleType, currentX, currentY)
        [] element.type = "point" -> updatePointByHandle(d, elementId, handleType, deltaX)
        [] OTHER -> d

\* Whether the update function reached store.updateElement, which saves.
HandleUpdateSaves(d, elementId, handleType) ==
  LET type == d.userElements[FindIndex(d.userElements, elementId)].type
  IN  \/ type \in {"rectangle", "line"}
      \/ type = "circle" /\ handleType = "circle-resize"
      \/ type = "point" /\ handleType = "point-resize"

updateElementByHandle(elementId, handleType, currentX, currentY) ==
  IF FindIndex(data.userElements, elementId) = 0
  THEN UNCHANGED <<data, localStorage, domVars>>
  ELSE LET updated == HandleUpdate(data, elementId, handleType, currentX, currentY)
       IN  /\ IF HandleUpdateSaves(data, elementId, handleType)
              THEN SaveData(updated)
              ELSE UNCHANGED <<data, localStorage>>
           /\ RenderUserElements(updated, currentTool, xScale, yScale)

\* Updates that move a line's start and leave its end where it is.
PositionUpdatesOfStart(element, newX, newY) == {<<"x", newX>>, <<"y", newY>>}

\* The updates updateElementPosition passes to store.updateElement.
PositionUpdates(element, newX, newY) ==
  IF element.type = "line"
  THEN {<<"x", newX>>, <<"y", newY>>,
        <<"x2", RAdd(element.x2, RSub(newX, element.x))>>,
        <<"y2", RAdd(element.y2, RSub(newY, element.y))>>}
  ELSE {<<"x", newX>>, <<"y", newY>>}

updateElementPosition(elementId, newX, newY) ==
  LET index == FindIndex(data.userElements, elementId)
      updated == updateElement(data, elementId,
                               PositionUpdates(data.userElements[index], newX, newY))
  IN  IF index = 0
      THEN UNCHANGED <<data, localStorage, domVars>>
      ELSE /\ SaveData(updated)
           /\ RenderUserElements(updated, currentTool, xScale, yScale)

\* Which branch of handleMouseMove runs.
HandleDragBranch ==
  /\ isDraggingHandle /\ draggedElementId # NoElementId /\ draggedHandleType # "null"
  /\ handleStartData # Null /\ dragStartPoint # Null

ElementDragBranch ==
  /\ isDraggingElement /\ draggedElementId # NoElementId
  /\ elementStartPosition # Null /\ dragStartPoint # Null

\* The position an element drag gives the element for a pointer position.
DraggedPosition(at) ==
  [x |-> RAdd(elementStartPosition.x, RSub(at.x, dragStartPoint.x)),
   y |-> RAdd(elementStartPosition.y, RSub(at.y, dragStartPoint.y))]

handleMouseMove(p) ==
  LET at == PointerToData(transform, xScale, yScale, p)
  IN  IF HandleDragBranch
      THEN updateElementByHandle(draggedElementId, draggedHandleType, at.x, at.y)
      ELSE IF ElementDragBranch
      THEN updateElementPosition(draggedElementId, DraggedPosition(at).x,
                                 DraggedPosition(at).y)
      ELSE \* updatePreview redraws the preview shape only
           UNCHANGED <<data, localStorage, domVars>>

(***************************************************************************)
(* The actions: one per event the browser, the toolbar or the page sends.  *)
(***************************************************************************)
\* A click is sent right after its mouseup: nothing comes between them.
NoPendingClick == mouse.click = Null

\* The node under svg pixel p.
TargetAt(p) ==
  HitTarget(userElementsGroup, controlsGroup,
            InvertX(transform, Num(p[1])), InvertY(transform, Num(p[2])))

\* A press at p: the node it hit, and the tool, the data coordinates and
\* the selection then.
Press(p) ==
  [target |-> TargetAt(p), p |-> p, tool |-> currentTool,
   at |-> PointerToData(transform, xScale, yScale, p),
   selectedIds |-> data.selectedIds]

MouseDownState(p) == [button |-> "down", down |-> Press(p), click |-> Null]

\* mousedown on a control handle: handleControlMouseDown stops the event.
MouseDownOnHandle(p) ==
  /\ svg /\ NoPendingClick /\ mouse.button = "up"
  /\ TargetAt(p).kind = "handle"
  /\ handleControlMouseDown(TargetAt(p).elementId, TargetAt(p).type, p)
  /\ mouse' = MouseDownState(p)
  /\ UNCHANGED <<storeVars, probe, svg, scaleVars, viewVars, drawVars, domVars,
                 idCounter, operations>>

\* mousedown on a user element in SELECT mode: handleElementMouseDown stops
\* the event.
MouseDownOnElement(p) ==
  /\ svg /\ NoPendingClick /\ mouse.button = "up"
  /\ TargetAt(p).kind = "element"
  /\ currentTool = SELECT
  /\ handleElementMouseDown(TargetAt(p).elementId, p)
  /\ mouse' = MouseDownState(p)
  /\ UNCHANGED <<currentTool, isDrawing, localStorage, setItemThrows, probe, svg,
                 scaleVars, viewVars, drawVars, idCounter, operations>>

\* mousedown that reaches the svg's listeners: on the background, or on an
\* element whose handler returned without stopping it.  d3-zoom's listener
\* comes first; when the filter accepts the event it starts a pan gesture,
\* interrupts the transition and stops the event; else handleMouseDown runs.
MouseDownOnSvg(p) ==
  /\ svg /\ NoPendingClick /\ mouse.button = "up"
  /\ \/ TargetAt(p).kind = "svg"
     \/ TargetAt(p).kind = "element" /\ currentTool # SELECT
  /\ IF ZoomFilter(currentTool, isDraggingElement, isDraggingHandle, "mousedown")
     THEN /\ panGesture' = [p0 |-> p, moved |-> FALSE,
                            grabbed |-> <<InvertX(transform, Num(p[1])),
                                          InvertY(transform, Num(p[2]))>>]
          /\ zoomTransition' = Null
          /\ UNCHANGED <<drawVars, isDrawing>>
     ELSE /\ handleMouseDown(p)
          /\ UNCHANGED <<panGesture, zoomTransition>>
  /\ mouse' = MouseDownState(p)
  /\ UNCHANGED <<currentTool, data, localStorage, setItemThrows, probe, svg, scaleVars,
                 transform, initialTransform, cachedTestData, dragVars, domVars,
                 idCounter, operations>>

\* mousemove over the svg.  During a pan gesture d3-zoom's window listener
\* takes the event and moves the viewport; else handleMouseMove runs.
MouseMove(p) ==
  /\ svg /\ NoPendingClick
  /\ IF panGesture # Null
     THEN /\ panGesture.moved \/ p = panGesture.p0 \/ operations < MaxOperations
          /\ transform' = PanTransform(transform, panGesture.grabbed, p)
          /\ panGesture' = [panGesture EXCEPT !.moved = @ \/ p # panGesture.p0]
          /\ operations' = IF ~panGesture.moved /\ p # panGesture.p0
                            THEN operations + 1 ELSE operations
          /\ UNCHANGED <<data, localStorage, domVars>>
     ELSE /\ handleMouseMove(p)
          /\ data' = data \/ operations < MaxOperations
          /\ operations' = IF data' = data THEN operations ELSE operations + 1
          /\ UNCHANGED <<transform, panGesture>>
  /\ UNCHANGED <<currentTool, isDrawing, setItemThrows, probe, svg, scaleVars,
                 initialTransform, cachedTestData, zoomTransition, drawVars,
                 dragVars, mouse, idCounter>>

\* The clicks that may follow a mouseup at p: on the element when the button
\* went down and up on it, else on the svg.  handleElementMouseDown has
\* replaced the node the button went down on by a new one, and browsers
\* differ on the target of the click then: the new node, or an ancestor of
\* both, from which the click reaches the svg only.  A click on the element
\* carries the tool and the selection of the press.
ClickAfter(p) ==
  IF mouse.down.target.kind = "element" /\ TargetAt(p) = mouse.down.target
  THEN {[kind |-> "element", elementId |-> mouse.down.target.elementId, p |-> p,
         tool |-> mouse.down.tool, selectedIds |-> mouse.down.selectedIds]}
       \cup IF mouse.down.tool = SELECT THEN {[kind |-> "svg", p |-> p]} ELSE {}
  ELSE {[kind |-> "svg", p |-> p]}

\* mouseup over the svg (it bubbles from every node).  It ends a pan
\* gesture, whose window listener stops it and, after a move, suppresses
\* the click; else handleMouseUp runs.
MouseUp(p) ==
  /\ svg /\ NoPendingClick /\ mouse.button = "down"
  /\ IF panGesture # Null
     THEN /\ panGesture' = Null
          /\ \E click \in IF panGesture.moved THEN {Null} ELSE ClickAfter(p) :
               mouse' = [button |-> "up", down |-> Null, click |-> click]
                  /\ UNCHANGED <<dragVars, drawVars, isDrawing, data, localStorage,
                         idCounter, domVars>>
     ELSE /\ handleMouseUp(p)
          /\ \E click \in ClickAfter(p) :
               mouse' = [button |-> "up", down |-> Null, click |-> click]
                  /\ UNCHANGED panGesture
  /\ UNCHANGED <<currentTool, setItemThrows, probe, svg, scaleVars, transform,
                 initialTransform, cachedTestData, zoomTransition, operations>>

\* The button is released outside the svg: the svg sees no mouseup.  A pan
\* gesture still ends, its listener being on the window.
MouseUpOutside ==
  /\ svg /\ NoPendingClick /\ mouse.button = "down"
  /\ panGesture' = Null
  /\ mouse' = MouseUpState
  /\ UNCHANGED <<storeVars, probe, svg, scaleVars, transform, initialTransform,
                 cachedTestData, zoomTransition, drawVars, dragVars, domVars,
                 idCounter, operations>>

\* The click.  On an element in SELECT mode handleElementClick stops it;
\* otherwise it reaches the svg's handleClick.
Click(ctrlOrMeta) ==
  /\ mouse.click # Null
  /\ IF mouse.click.kind = "element" /\ currentTool = SELECT
     THEN /\ handleElementClick(mouse.click.elementId, ctrlOrMeta)
          /\ UNCHANGED <<localStorage, idCounter>>
     ELSE handleClick(mouse.click.p)
  /\ mouse' = [mouse EXCEPT !.click = Null]
  /\ UNCHANGED <<currentTool, isDrawing, setItemThrows, probe, svg, scaleVars, viewVars,
                 drawVars, dragVars, operations>>

\* A wheel event over the svg: the filter lets it through in every mode.
\* d3-zoom ignores it when the clamped scale equals the current one.
Wheel(p, factor) ==
  /\ svg /\ NoPendingClick
  /\ operations < MaxOperations
  /\ ZoomFilter(currentTool, isDraggingElement, isDraggingHandle, "wheel")
  /\ WheelTransform(transform, p, factor).k # transform.k
  /\ transform' = WheelTransform(transform, p, factor)
  /\ zoomTransition' = Null
  /\ operations' = operations + 1
  /\ UNCHANGED <<storeVars, probe, svg, scaleVars, initialTransform, cachedTestData,
                 panGesture, drawVars, dragVars, domVars, mouse, idCounter>>

\* A tool setter that does not toggle.
setToolOnly(current, tool) == tool

\* The tool toggleTool passes to setCurrentTool.
toggleTool(current, tool) == IF current = tool THEN SELECT ELSE tool

\* A toolbar button: store.toggleTool(tool).  The store subscription only
\* updates the cursor.
ToggleTool(tool) ==
  /\ NoPendingClick
  /\ operations < MaxOperations
  /\ operations' = operations + 1
  /\ currentTool' = toggleTool(currentTool, tool)
  /\ isDrawing' = FALSE
  /\ data' = IF currentTool' = SELECT THEN clearSelection(data) ELSE data
  /\ UNCHANGED <<localStorage, setItemThrows, probe, svg, scaleVars, viewVars, drawVars,
                 dragVars, domVars, mouse, idCounter>>

\* The ResizeObserver callback: handleResize and, on a new size, redraw.
HandleResize(size) ==
  /\ svg /\ NoPendingClick
  /\ size # <<width, height>>
  /\ operations < MaxOperations
  /\ operations' = operations + 1
  /\ width' = size[1]
  /\ height' = size[2]
  /\ xScale' = setupScales(Num(size[1]), Num(size[2])).xScale
  /\ yScale' = setupScales(Num(size[1]), Num(size[2])).yScale
  /\ baseUnitPixels' = setupScales(Num(size[1]), Num(size[2])).baseUnitPixels
  /\ zoomTransition' = Null
  /\ IF cachedTestData # Null
     THEN RenderUserElements(data, currentTool, xScale', yScale')
     ELSE UNCHANGED domVars
  /\ UNCHANGED <<storeVars, probe, svg, transform, initialTransform, cachedTestData,
                 panGesture, drawVars, dragVars, mouse, idCounter>>

\* loadTestData with test.json holding testData: drawTestData and
\* fitToView, which starts a transition to the fitted transform.
LoadTestData(testData) ==
  /\ NoPendingClick
  /\ operations < MaxOperations
  /\ operations' = operations + 1
  /\ cachedTestData' = testData
  /\ data' = setInitialOutline(data, testData)
  /\ LET fitted == fitToView(testData, Num(width), Num(height), baseUnitPixels)
     IN  IF svg /\ fitted # Null
         THEN /\ initialTransform' = fitted
              /\ zoomTransition' = fitted
         ELSE UNCHANGED <<initialTransform, zoomTransition>>
  /\ UNCHANGED <<currentTool, isDrawing, localStorage, setItemThrows, probe, svg, scaleVars,
                 transform, panGesture, drawVars, dragVars, domVars, mouse, idCounter>>

\* A reset that returns the viewport to the identity transform.
resetToIdentity(svgPresent, initial, running) ==
  IF ~svgPresent \/ initial = Null THEN running ELSE zoomIdentity

\* resetToInitial: the transition the svg runs afterwards.  Without svg or
\* cached initialTransform it returns before starting one.
resetToInitial(svgPresent, initial, running) ==
  IF ~svgPresent \/ initial = Null THEN running ELSE initial

\* The reset button.
ResetToInitial ==
  /\ NoPendingClick
  /\ zoomTransition' = resetToInitial(svg, initialTransform, zoomTransition)
  /\ UNCHANGED <<storeVars, probe, svg, scaleVars, transform, initialTransform,
                 cachedTestData, panGesture, drawVars, dragVars, domVars, envVars>>

\* A transition reaches its target; its frames in between are not modelled.
TransitionEnd ==
  /\ NoPendingClick
  /\ zoomTransition # Null
  /\ transform' = zoomTransition
  /\ zoomTransition' = Null
  /\ UNCHANGED <<storeVars, probe, svg, scaleVars, initialTransform, cachedTestData,
                 panGesture, drawVars, dragVars, domVars, envVars>>

ClearUserElements ==
  /\ NoPendingClick
  /\ operations < MaxOperations
  /\ operations' = operations + 1
  /\ SaveData(clearUserElementsData(data))
  /\ RenderUserElements(clearUserElementsData(data), currentTool, xScale, yScale)
  /\ UNCHANGED <<currentTool, isDrawing, setItemThrows, probe, svg, scaleVars, viewVars,
                 drawVars, dragVars, mouse, idCounter>>

ReloadPersistedData ==
  /\ NoPendingClick
  /\ operations < MaxOperations
  /\ operations' = operations + 1
  /\ data' = loadPersistedData(localStorage)
  /\ RenderUserElements(loadPersistedData(localStorage), currentTool, xScale, yScale)
  /\ UNCHANGED <<currentTool, isDrawing, localStorage, setItemThrows, probe, svg, scaleVars,
                 viewVars, drawVars, dragVars, mouse, idCounter>>

Destroy ==
  /\ svg /\ NoPendingClick
  /\ operations < MaxOperations
  /\ operations' = operations + 1
  /\ svg' = FALSE
  /\ cachedTestData' = Null
  /\ initialTransform' = Null
  /\ UNCHANGED <<storeVars, probe, scaleVars, transform, zoomTransition, panGesture,
                 drawVars, dragVars, domVars, mouse, idCounter>>

DrawingTools == {POINT, LINE, CIRCLE, RECTANGLE}

Next ==
  \/ \E p \in Pixels : MouseDownOnHandle(p)
  \/ \E p \in Pixels : MouseDownOnElement(p)
  \/ \E p \in Pixels : MouseDownOnSvg(p)
  \/ \E p \in Pixels : MouseMove(p)
  \/ \E p \in Pixels : MouseUp(p)
  \/ MouseUpOutside
  \/ \E ctrlOrMeta \in BOOLEAN : Click(ctrlOrMeta)
  \/ \E p \in Pixels, factor \in WheelFactors : Wheel(p, factor)
  \/ \E tool \in DrawingTools : ToggleTool(tool)
  \/ \E size \in Sizes : HandleResize(size)
  \/ \E testData \in TestDatas : LoadTestData(testData)
  \/ ResetToInitial
  \/ TransitionEnd
  \/ ClearUserElements
  \/ ReloadPersistedData
  \/ Destroy

Spec == Init /\ [][Next]_vars

(***************************************************************************)
(* The viewport on its own: the events that reach d3-zoom, the transitions *)
(* and the methods that touch the transform.  The timer of a running       *)
(* transition keeps ticking until its last frame, and the browser          *)
(* dispatches the click right after the mouseup it belongs to.             *)
(***************************************************************************)
ViewInput ==
  \/ \E p \in Pixels : MouseDownOnSvg(p)
  \/ \E p \in Pixels : MouseMove(p)
  \/ \E p \in Pixels : MouseUp(p)
  \/ MouseUpOutside
  \/ \E ctrlOrMeta \in BOOLEAN : Click(ctrlOrMeta)
  \/ \E p \in Pixels, factor \in WheelFactors : Wheel(p, factor)
  \/ \E size \in Sizes : HandleResize(size)
  \/ \E testData \in TestDatas : LoadTestData(testData)
  \/ Destroy

NextView == ViewInput \/ ResetToInitial \/ TransitionEnd

SpecView ==
  /\ Init /\ [][NextView]_vars
  /\ WF_vars(TransitionEnd)
  /\ WF_vars(\E ctrlOrMeta \in BOOLEAN : Click(ctrlOrMeta))

(***************************************************************************)
(* The store on its own: its actions called directly, in any order.        *)
(***************************************************************************)
StoreElements ==
  {GraphicElement(1, "rectangle", Num(0), Num(0), Undefined, Undefined, Undefined,
                  Num(2), Num(1)),
   GraphicElement(2, "line", Num(1), Num(1), Num(3), Rat(1, 2), Undefined, Undefined,
                  Undefined),
   GraphicElement(2, "point", Rat(-1, 3), Num(4), Undefined, Undefined,
                  DefaultPointRadius, Undefined, Undefined)}

StoreUpdates ==
  {{<<"x", Num(3)>>, <<"y", Rat(7, 2)>>},
   {<<"radius", Rat(1, 2)>>, <<"x2", Undefined>>}}

StoreIds == {1, 2}

StoreFrame ==
  UNCHANGED <<currentTool, isDrawing, setItemThrows, probe, svg, scaleVars, viewVars,
              drawVars, dragVars, domVars, envVars>>

StoreAddElement(element) ==
  /\ Len(data.userElements) <= MaxElements
  /\ SaveData(addElement(data, element))
  /\ StoreFrame

StoreRemoveElement(id) ==
  /\ SaveData(removeElement(data, id))
  /\ StoreFrame

StoreUpdateElement(id, updates) ==
  /\ IF updateElementFound(data, id)
     THEN SaveData(updateElement(data, id, updates))
     ELSE UNCHANGED <<data, localStorage>>
  /\ StoreFrame

StoreSelectElement(id) ==
  /\ data' = selectElement(data, id)
  /\ UNCHANGED localStorage
  /\ StoreFrame

StoreSetInitialOutline(outline) ==
  /\ data' = setInitialOutline(data, outline)
  /\ UNCHANGED localStorage
  /\ StoreFrame

StoreClearUserElements ==
  /\ SaveData(clearUserElementsData(data))
  /\ StoreFrame

StoreLoadData ==
  /\ data' = loadPersistedData(localStorage)
  /\ UNCHANGED localStorage
  /\ StoreFrame

NextStore ==
  \/ \E element \in StoreElements : StoreAddElement(element)
  \/ \E id \in StoreIds : StoreRemoveElement(id)
  \/ \E id \in StoreIds, updates \in StoreUpdates : StoreUpdateElement(id, updates)
  \/ \E id \in StoreIds : StoreSelectElement(id)
  \/ \E outline \in TestDatas : StoreSetInitialOutline(outline)
  \/ StoreClearUserElements
  \/ StoreLoadData

SpecStore == Init /\ [][NextStore]_vars

(***************************************************************************)
(* The store with a localStorage whose quota fills up and frees again:     *)
(* while it is full, setItem throws.                                       *)
(***************************************************************************)
QuotaChange ==
  /\ setItemThrows' = ~setItemThrows
  /\ UNCHANGED <<currentTool, isDrawing, data, localStorage, probe, svg, scaleVars,
                 viewVars, drawVars, dragVars, domVars, envVars>>

NextQuota ==
  \/ \E element \in StoreElements : StoreAddElement(element)
  \/ \E id \in StoreIds : StoreRemoveElement(id)
  \/ \E id \in StoreIds, updates \in StoreUpdates : StoreUpdateElement(id, updates)
  \/ StoreClearUserElements
  \/ StoreLoadData
  \/ QuotaChange

SpecQuota == Init /\ [][NextQuota]_vars

(***************************************************************************)
(* Functions of the program applied on their own to arguments drawn from   *)
(* bounded sets; probe records the call.                                   *)
(***************************************************************************)
ProbeFrame ==
  UNCHANGED <<storeVars, svg, scaleVars, viewVars, drawVars, dragVars, domVars,
              envVars>>

\* Zoom scales: 1/3 and the twentieths from 7/20 to 3.
ZoomScales == {Rat(1, 3)} \cup {Rat(n, 20) : n \in 7..60}

\* drawAxis asks for the tick spacing of the current zoom scale.
CalculateOptimalTickSpacing(zoomScale) ==
  /\ probe' = [fn |-> "calculateOptimalTickSpacing", zoomScale |-> zoomScale,
               result |-> calculateOptimalTickSpacing(zoomScale)]
  /\ ProbeFrame

\* Whole-degree angle texts, and arcs of radius 2 about (1, -1) between
\* them; a base line from (-3, -2) to (4, -2).
AngleTexts == {<<a, 0>> : a \in {-90, 0, 45, 90, 200, 270, 360}}

ArcSegments ==
  {Geometry(<<1, 0>>, <<-1, 0>>, <<1, 0>>, <<-1, 0>>, <<2, 0>>, startAngle, endAngle,
            <<1, 0>>, <<-1, 0>>) : startAngle \in AngleTexts, endAngle \in AngleTexts}

BaseLine == StraightLine(<<-3, 0>>, <<-2, 0>>, <<4, 0>>, <<-2, 0>>)

\* An arc about the origin, its centre left out of the data.
OriginArc ==
  Geometry(<<5, 1>>, <<0, 0>>, <<0, 0>>, <<5, 1>>, <<5, 1>>, <<0, 0>>, <<90, 0>>,
           Null, Null)

BoundsInputs ==
  TestDatas
  \cup {[digLines |-> <<arc>>, blastingDesignLibraryParts |-> <<>>] : arc \in ArcSegments}
  \cup {[digLines |-> <<BaseLine, OriginArc>>,
          blastingDesignLibraryParts |-> PartsOnlyOutline.blastingDesignLibraryParts]}

\* fitToView asks for the bounds of the test data.
CalculateBounds(testData) ==
  /\ probe' = [fn |-> "calculateBounds", testData |-> testData,
               result |-> calculateBounds(testData)]
  /\ ProbeFrame

NextBounds == \E testData \in BoundsInputs : CalculateBounds(testData)

SpecBounds == Init /\ [][NextBounds]_vars

\* What getItem may answer: no entry, an exception, texts that are no
\* object, and objects whose four members are each missing, falsy or stored.
\* The stored axis "hidden" stands for an axis object other than the default.
MemberChoices(key, falsy, stored) ==
  {{}} \cup {{<<key, "falsy", text>>} : text \in falsy}
       \cup {{<<key, "truthy", value>>} : value \in stored}

StoredObjects ==
  {JsonObject(axis \cup outline \cup elements \cup selected) :
     axis \in MemberChoices("axis", FalsyTexts, {"hidden"}),
     outline \in MemberChoices("initialOutline", {"null"}, {ArchOutline}),
     elements \in MemberChoices("userElements", {"null"},
                                {<<>>, <<ElementToJson(PersistedRectangle)>>}),
     selected \in MemberChoices("selectedIds", {"null"}, {<<1>>})}

StorageEntries ==
  {NoEntry, GetItemThrows, EmptyText, InvalidJson, JsonNull, JsonNumber}
  \cup StoredObjects

\* The store's state initialiser and loadData call loadPersistedData.
LoadPersistedData(entry) ==
  /\ probe' = [fn |-> "loadPersistedData", entry |-> entry,
               result |-> loadPersistedData(entry)]
  /\ ProbeFrame

NextLoad == \E entry \in StorageEntries : LoadPersistedData(entry)

SpecLoad == Init /\ [][NextLoad]_vars

\* ---- updateRectangleByHandle, applied to rectangles and pointer positions
\* drawn from bounded sets

CornerHandles == {"resize-tl", "resize-tr", "resize-bl", "resize-br"}

\* Rectangles as they are at drag start: x, y the minimum corner.
StartRectangles ==
  {[id |-> 1, type |-> "rectangle", x |-> Num(0), y |-> Num(0),
    width |-> Num(2), height |-> Num(1)],
   [id |-> 1, type |-> "rectangle", x |-> Num(-1), y |-> Num(1),
    width |-> Num(1), height |-> Num(2)]}

\* Pointer coordinates in data space, on both sides of every corner and
\* closer to a corner than the minimum size.
PointerCoordinates ==
  {Num(-2), Rat(-1, 20), Num(0), Rat(1, 20), Num(1), Rat(39, 20), Num(2), Num(3)}

\* The rectangle after store.updateElement has merged the updates.
MergeUpdates(element, updates) ==
  [key \in DOMAIN element |->
     IF \E update \in updates : update[1] = key
     THEN (CHOOSE update \in updates : update[1] = key)[2]
     ELSE element[key]]

UpdateRectangleByHandle(originalData, handleType, currentMouseX, currentMouseY) ==
  /\ probe' = [fn |-> "updateRectangleByHandle", originalData |-> originalData,
               handleType |-> handleType,
               currentMouseX |-> currentMouseX, currentMouseY |-> currentMouseY,
               result |-> MergeUpdates(originalData,
                            RectangleUpdates(originalData, handleType,
                                             currentMouseX, currentMouseY))]
  /\ ProbeFrame

NextResize ==
  \E originalData \in StartRectangles, handleType \in CornerHandles,
     currentMouseX \in PointerCoordinates, currentMouseY \in PointerCoordinates :
    UpdateRectangleByHandle(originalData, handleType, currentMouseX, currentMouseY)

SpecResize == Init /\ [][NextResize]_vars

\* ---- updateCircleByHandle and updatePointByHandle, applied to elements
\* and pointer positions drawn from bounded sets

\* Circles and points as they are at drag start; a point need not have a
\* radius (PointElement.radius is optional, it is drawn with 0.2 then).
StartCircles ==
  {GraphicElement(1, "circle", Num(0), Num(0), Undefined, Undefined, radius,
                  Undefined, Undefined) : radius \in {Num(0), Rat(1, 10), Num(1)}}

StartPoints ==
  {GraphicElement(1, "point", Num(0), Num(0), Undefined, Undefined, radius,
                  Undefined, Undefined) : radius \in {DefaultPointRadius, Undefined}}

RadiusHandles == {"circle-resize", "point-resize"}

\* Horizontal pointer positions in data space.
PointerXs == {Rat(n, 20) : n \in -4..24}

UpdateCircleByHandle(originalData, handleType, startX, currentX) ==
  /\ probe' = [fn |-> "updateCircleByHandle", originalData |-> originalData,
               handleType |-> handleType, startX |-> startX, currentX |-> currentX,
               result |-> MergeUpdates(originalData,
                            CircleUpdates(originalData, handleType,
                                          RSub(currentX, startX)))]
  /\ ProbeFrame

UpdatePointByHandle(originalData, handleType, startX, currentX) ==
  /\ probe' = [fn |-> "updatePointByHandle", originalData |-> originalData,
               handleType |-> handleType, startX |-> startX, currentX |-> currentX,
               result |-> MergeUpdates(originalData,
                            PointUpdates(originalData, handleType,
                                         RSub(currentX, startX)))]
  /\ ProbeFrame

\* The pointer goes down on the handle, which is drawn at the radius to
\* the right of the centre.
NextRadius ==
  \E handleType \in RadiusHandles, currentX \in PointerXs :
    \/ \E originalData \in StartCircles :
         UpdateCircleByHandle(originalData, handleType,
                              RAdd(originalData.x, originalData.radius), currentX)
    \/ \E originalData \in StartPoints :
         UpdatePointByHandle(originalData, handleType,
                             RAdd(originalData.x, RadiusOrDefault(originalData.radius)),
                             currentX)

NextHandles == NextResize \/ NextRadius

SpecHandles == Init /\ [][NextHandles]_vars

\* ---- an element drag: the state after a press on one of two elements in
\* SELECT mode, and the mousemoves that follow it

DragPixel == <<120, 120>>

\* An element of each type under data point at, or away from it.
ElementsAt(id, at) ==
  {GraphicElement(id, "line", at.x, at.y, RAdd(at.x, Num(2)), RAdd(at.y, Num(1)),
                  Undefined, Undefined, Undefined),
   GraphicElement(id, "rectangle", at.x, at.y, Undefined, Undefined, Undefined,
                  Num(2), Rat(3, 2)),
   GraphicElement(id, "circle", at.x, at.y, Undefined, Undefined, Num(1),
                  Undefined, Undefined),
   GraphicElement(id, "point", at.x, at.y, Undefined, Undefined, DefaultPointRadius,
                  Undefined, Undefined)}

\* Pointer positions of the mousemoves, in data space.
DragPointers(at) ==
  {[x |-> RAdd(at.x, Rat(i, 2)), y |-> RAdd(at.y, Rat(j, 2))] :
     i \in -2..2, j \in -2..2}

\* The state handleElementMouseDown leaves: the pressed element selected and
\* the element drag started at the pointer.
InitDrag ==
  LET scales == setupScales(Num(InitialSize[1]), Num(InitialSize[2]))
      at == PointerToData(zoomIdentity, scales.xScale, scales.yScale, DragPixel)
      away == [x |-> RAdd(at.x, Num(4)), y |-> RAdd(at.y, Num(4))]
  IN  \E pressedId \in {1, 2} :
      \E pressed \in ElementsAt(pressedId, at), other \in ElementsAt(3 - pressedId, away) :
        /\ data = [DefaultData EXCEPT
                     !.userElements = IF pressedId = 1 THEN <<pressed, other>>
                                      ELSE <<other, pressed>>,
                     !.selectedIds = <<pressedId>>]
        /\ localStorage = JsonStringify([data EXCEPT !.selectedIds = <<>>])
        /\ setItemThrows = FALSE
        /\ currentTool = SELECT
        /\ isDrawing = FALSE
        /\ svg = TRUE
        /\ width = InitialSize[1]
        /\ height = InitialSize[2]
        /\ xScale = scales.xScale
        /\ yScale = scales.yScale
        /\ baseUnitPixels = scales.baseUnitPixels
        /\ transform = zoomIdentity
        /\ initialTransform = Null
        /\ cachedTestData = Null
        /\ zoomTransition = Null
        /\ panGesture = Null
        /\ isCurrentlyDrawing = FALSE
        /\ drawingStartPoint = Null
        /\ previewElement = FALSE
        /\ isDraggingElement = TRUE
        /\ draggedElementId = pressedId
        /\ dragStartPoint = at
        /\ elementStartPosition = [x |-> pressed.x, y |-> pressed.y]
        /\ isDraggingHandle = FALSE
        /\ draggedHandleType = "null"
        /\ handleStartData = Null
        /\ userElementsGroup = renderElements(data, xScale, yScale)
        /\ controlsGroup = renderControls(data, currentTool, xScale, yScale)
        /\ mouse = [button |-> "down",
                    down |-> [target |-> [kind |-> "element", elementId |-> pressedId],
                              p |-> DragPixel, tool |-> SELECT, at |-> at,
                              selectedIds |-> <<>>],
                    click |-> Null]
        /\ idCounter = 2
        /\ operations = 0
        /\ probe = Null

\* A mousemove handled by the element-drag branch of handleMouseMove, the
\* pointer at data position at.  The probe keeps the pointer position and
\* the elements as they were when the drag started.
ElementDragMove(at) ==
  /\ svg /\ ~HandleDragBranch /\ ElementDragBranch
  /\ updateElementPosition(draggedElementId, DraggedPosition(at).x,
                            DraggedPosition(at).y)
  /\ probe' = [fn |-> "handleMouseMove", at |-> at,
               userElements |-> IF probe = Null THEN data.userElements
                                ELSE probe.userElements]
  /\ UNCHANGED <<currentTool, isDrawing, setItemThrows, svg, scaleVars, viewVars,
                 drawVars, dragVars, mouse, idCounter, operations>>

NextDrag == \E at \in DragPointers(dragStartPoint) : ElementDragMove(at)

SpecDrag == InitDrag /\ [][NextDrag]_vars

\* ---- the mouse interactions together with the store actions that take
\* elements away.  The store actions called on the store itself (getStore)
\* do not render, so the nodes of removed elements stay in the DOM until
\* the next renderUserElements.

NextSelect ==
  \/ \E p \in Pixels : MouseDownOnHandle(p)
  \/ \E p \in Pixels : MouseDownOnElement(p)
  \/ \E p \in Pixels : MouseDownOnSvg(p)
  \/ \E p \in Pixels : MouseMove(p)
  \/ \E p \in Pixels : MouseUp(p)
  \/ MouseUpOutside
  \/ \E ctrlOrMeta \in BOOLEAN : Click(ctrlOrMeta)
  \/ \E id \in StoreIds : NoPendingClick /\ StoreRemoveElement(id)
  \/ NoPendingClick /\ StoreClearUserElements
  \/ NoPendingClick /\ StoreLoadData
  \/ ClearUserElements
  \/ ReloadPersistedData

SpecSelect == Init /\ [][NextSelect]_vars

\* ---- fitToView, for outlines with and without extent, in containers of
\* both sizes and from zoomed viewports

\* Outlines whose dig lines span no width, no height, or neither.
VerticalOutline ==
  [digLines |-> <<StraightLine(<<20, 1>>, <<-10, 1>>, <<20, 1>>, <<30, 1>>)>>,
   blastingDesignLibraryParts |-> <<>>]

HorizontalOutline ==
  [digLines |-> <<StraightLine(<<-10, 1>>, <<5, 0>>, <<30, 1>>, <<5, 0>>)>>,
   blastingDesignLibraryParts |-> <<>>]

\* A 1 x 0.5 outline, which fills the target height only beyond the
\* largest scale, and a 4 x 40 one, which needs less than the smallest.
SmallOutline ==
  [digLines |-> <<StraightLine(<<0, 0>>, <<0, 0>>, <<1, 0>>, <<5, 1>>)>>,
   blastingDesignLibraryParts |-> <<>>]

TallOutline ==
  [digLines |-> <<StraightLine(<<0, 0>>, <<-20, 0>>, <<4, 0>>, <<20, 0>>)>>,
   blastingDesignLibraryParts |-> <<>>]

FitInputs ==
  TestDatas \cup {VerticalOutline, HorizontalOutline, SmallOutline, TallOutline}

NextFit ==
  \/ \E testData \in FitInputs : LoadTestData(testData)
  \/ TransitionEnd
  \/ \E size \in Sizes : HandleResize(size)
  \/ \E p \in Pixels, factor \in WheelFactors : Wheel(p, factor)

SpecFit == Init /\ [][NextFit]_vars

NextTicks == \E zoomScale \in ZoomScales : CalculateOptimalTickSpacing(zoomScale)

SpecTicks == Init /\ [][NextTicks]_vars

(***************************************************************************)
(* The claims.                                                             *)
(***************************************************************************)
\* C1: at most one of isCurrentlyDrawing, isDraggingElement and
\* isDraggingHandle is true, whatever mouse events the controller gets,
\* mouseups that never arrive and toolbar switches included.
C1_AtMostOneGestureFlag ==
  /\ ~(isCurrentlyDrawing /\ isDraggingElement)
  /\ ~(isCurrentlyDrawing /\ isDraggingHandle)
  /\ ~(isDraggingElement /\ isDraggingHandle)

\* C2: a pointer pixel converted to data coordinates with the rescaled
\* scales, then drawn with the base scales inside the transformed main
\* group, lands on the same pixel.
C2_PointerRoundTrip ==
  \A p \in Pixels :
    LET at == PointerToData(transform, xScale, yScale, p)
    IN  /\ ApplyX(transform, ScaleApply(xScale, at.x)) = Num(p[1])
        /\ ApplyY(transform, ScaleApply(yScale, at.y)) = Num(p[2])

\* A point or circle drawn under a zoomed and moved viewport is rendered
\* with its centre under the pointer pixel it was drawn at.
C2_Witness ==
  /\ transform.k # Num(1) /\ transform.x # Num(0)
  /\ \E i \in 1..Len(userElementsGroup), p \in Pixels :
       /\ userElementsGroup[i].tag = "circle"
       /\ ApplyX(transform, userElementsGroup[i].cx) = Num(p[1])
       /\ ApplyY(transform, userElementsGroup[i].cy) = Num(p[2])

\* C3: the y scale's domain is [-10, 10], the x scale's domain is symmetric
\* about 0 and effectiveWidth / (effectiveHeight / 20) wide, and one data
\* unit is baseUnitPixels pixels on both axes.
C3_FixedVerticalAxis ==
  LET effectiveWidth == Num(width - 2 * MarginPx)
      effectiveHeight == Num(height - 2 * MarginPx)
  IN  /\ yScale.domain = <<Num(-10), Num(10)>>
      /\ xScale.domain[1] = RNeg(xScale.domain[2])
      /\ RSub(xScale.domain[2], xScale.domain[1])
           = RDiv(effectiveWidth, RDiv(effectiveHeight, Num(20)))
      /\ baseUnitPixels = RDiv(effectiveHeight, Num(20))
      /\ RSub(ScaleApply(xScale, Num(1)), ScaleApply(xScale, Num(0))) = baseUnitPixels
      /\ RSub(ScaleApply(yScale, Num(0)), ScaleApply(yScale, Num(1))) = baseUnitPixels

\* The container has been resized.
C3_Witness == <<width, height>> # InitialSize /\ operations > 0

LastElement(d) == d.userElements[Len(d.userElements)]

\* The mouseup of this step is delivered to the svg and drawing is the
\* gesture the press began: the press reached the svg's mousedown listener
\* with a LINE, CIRCLE or RECTANGLE tool, which is still the tool.
DrawGestureEnds ==
  /\ mouse.button = "down" /\ mouse'.button = "up" /\ mouse'.click # Null
  /\ mouse.down.target.kind # "handle"
  /\ mouse.down.tool \in DragTools
  /\ currentTool = mouse.down.tool

AnchoredAtPress(element) ==
  LET start == mouse.down.at
      end == PointerToData(transform, xScale, yScale, mouse'.click.p)
  IN  CASE currentTool = LINE ->
             /\ element.type = "line"
             /\ element.x = start.x /\ element.y = start.y
             /\ element.x2 = end.x /\ element.y2 = end.y
        [] currentTool = CIRCLE ->
             element.type = "circle" /\ element.x = start.x /\ element.y = start.y
        [] currentTool = RECTANGLE ->
             /\ element.type = "rectangle"
             /\ element.x = RMin(start.x, end.x) /\ element.y = RMin(start.y, end.y)
             /\ element.width = RAbs(RSub(end.x, start.x))
             /\ element.height = RAbs(RSub(end.y, start.y))

\* The click of this step reaches the svg's click listener in POINT mode.
PointClick == mouse.click # Null /\ mouse'.click = Null /\ currentTool = POINT

\* C5: with the LINE, CIRCLE or RECTANGLE tool an svg mousedown followed
\* by an svg mouseup appends exactly one element of the tool's type,
\* anchored at the data coordinates of the mousedown; with the POINT tool
\* each svg click appends one point of radius 0.2 at the click.
C5_DrawAppendsOneElement ==
  [][/\ DrawGestureEnds =>
          /\ Len(data'.userElements) = Len(data.userElements) + 1
          /\ SubSeq(data'.userElements, 1, Len(data.userElements)) = data.userElements
          /\ AnchoredAtPress(LastElement(data'))
     /\ PointClick =>
          /\ Len(data'.userElements) = Len(data.userElements) + 1
          /\ SubSeq(data'.userElements, 1, Len(data.userElements)) = data.userElements
          /\ LastElement(data').type = "point"
          /\ LastElement(data').radius = Rat(2, 10)
          /\ LastElement(data').x
               = PointerToData(transform, xScale, yScale, mouse.click.p).x
          /\ LastElement(data').y
               = PointerToData(transform, xScale, yScale, mouse.click.p).y]_vars

\* The element with the given id, when the store holds one.
ElementOf(d, id) == d.userElements[FindIndex(d.userElements, id)]

\* C6: during an element drag every mousemove leaves the dragged element
\* at elementStartPosition + (pointer data coordinates - dragStartPoint),
\* under the viewport of the moment.
C6_DragFollowsPointer ==
  [][(/\ isDraggingElement /\ isDraggingElement'
      /\ draggedElementId' = draggedElementId
      /\ FindIndex(data.userElements, draggedElementId) > 0
      /\ FindIndex(data'.userElements, draggedElementId) > 0
      /\ ElementOf(data', draggedElementId) # ElementOf(data, draggedElementId))
     => \E p \in Pixels :
          LET at == PointerToData(transform, xScale, yScale, p)
          IN  /\ ElementOf(data', draggedElementId).x
                   = RAdd(elementStartPosition.x, RSub(at.x, dragStartPoint.x))
              /\ ElementOf(data', draggedElementId).y
                   = RAdd(elementStartPosition.y, RSub(at.y, dragStartPoint.y))]_vars

\* C7: the controls group holds handles only while the tool is SELECT, and
\* then for exactly the selected elements; in a drawing mode there is no
\* handle to grab.
C7_HandlesOnlyForSelection ==
  LET handled == {controlsGroup[i].elementId : i \in 1..Len(controlsGroup)}
      selected == {data.userElements[i].id : i \in {j \in 1..Len(data.userElements) :
                     Includes(data.selectedIds, data.userElements[j].id)}}
  IN  IF currentTool = SELECT THEN handled = selected ELSE handled = {}

\* A rendered node without the styling that shows selection.
NodeGeometry(node) == [k \in DOMAIN node \ {"strokeWidth"} |-> node[k]]

\* C8: the user-elements group holds one node per element of the store,
\* with the store's ids in the store's order, placed by the current scales.
C8_RenderedMatchesStore ==
  /\ Len(userElementsGroup) = Len(data.userElements)
  /\ \A i \in 1..Len(userElementsGroup) :
       NodeGeometry(userElementsGroup[i])
         = NodeGeometry(renderElement(data.userElements[i], xScale, yScale,
                                      data.selectedIds))

OutlineChanges ==
  \/ data'.initialOutline # data.initialOutline
  \/ cachedTestData' # cachedTestData

\* C9 as stated: the outline data, data.initialOutline and cachedTestData,
\* is changed by loading test data only.
C9_OutlineChangedByLoadOnly ==
  [][OutlineChanges => \E testData \in TestDatas : LoadTestData(testData)]_vars

\* C9 amended: the outline data is changed only by loading test data, by
\* reloadPersistedData, which puts the persisted outline in
\* data.initialOutline, and by destroy, which drops cachedTestData.
C9_OutlineChangedByLoadReloadDestroy ==
  [][OutlineChanges =>
       \/ \E testData \in TestDatas : LoadTestData(testData)
       \/ ReloadPersistedData /\ cachedTestData' = cachedTestData
       \/ Destroy /\ data'.initialOutline = data.initialOutline]_vars

\* Test data is loaded and drawn while the store's outline is no longer it.
C9_Witness ==
  /\ cachedTestData # Null
  /\ data.initialOutline # cachedTestData

InExtent(t) == RLe(ScaleExtentMin, t.k) /\ RLe(t.k, ScaleExtentMax)

FurtherInput == ViewInput /\ ~ResetToInitial /\ ~TransitionEnd

ResetRunning == zoomTransition # Null /\ zoomTransition = initialTransform

\* C11: resetToInitial with a cached initialTransform starts a transition to
\* it; a step that is no further input leaves that transition running or
\* ends it with the viewport transform equal to the cached one; and unless
\* input keeps arriving forever, no such transition stays unfinished.
\* Without a cached initialTransform resetToInitial changes nothing.
C11_ResetReachesInitial ==
  /\ [][ResetToInitial /\ svg /\ initialTransform # Null
          => zoomTransition' = initialTransform /\ transform' = transform]_vars
  /\ [][ResetRunning /\ ~FurtherInput
          => ResetRunning' \/ transform' = initialTransform']_vars
  /\ ([]<><<FurtherInput>>_vars \/ <>[](ResetRunning => transform = initialTransform))
  /\ [][ResetToInitial /\ initialTransform = Null => UNCHANGED vars]_vars

\* The viewport has been zoomed away from the fitted transform and a reset
\* is running.
C11_Witness ==
  /\ ResetRunning
  /\ transform # initialTransform
  /\ \E p \in Pixels, factor \in WheelFactors :
       transform = WheelTransform(initialTransform, p, factor)

ProbeOf(fn) == probe # Null /\ probe.fn = fn

\* C12: over the zoom range the major spacing is 1, 2, 5 or 10 and the minor
\* spacing 0.2, 0.5, 1 or 2 by the stated thresholds; the minor spacing is
\* smaller than the major one and divides it; a larger scale never gets a
\* larger spacing.
C12_TickSpacingTable ==
  ProbeOf("calculateOptimalTickSpacing") =>
    LET k == probe.zoomScale
        major == probe.result.major
        minor == probe.result.minor
    IN  /\ major = IF RLe(Rat(3, 2), k) THEN Num(1)
                   ELSE IF RLe(Num(1), k) THEN Num(2)
                   ELSE IF RLe(Rat(1, 2), k) THEN Num(5) ELSE Num(10)
        /\ minor = IF RLe(Rat(5, 2), k) THEN Rat(1, 5)
                   ELSE IF RLe(Num(1), k) THEN Rat(1, 2)
                   ELSE IF RLe(Rat(1, 2), k) THEN Num(1) ELSE Num(2)
        /\ RLt(minor, major)
        /\ RDiv(major, minor)[2] = 1
        /\ \A larger \in ZoomScales :
             RLe(k, larger) =>
               /\ RLe(calculateOptimalTickSpacing(larger).major, major)
               /\ RLe(calculateOptimalTickSpacing(larger).minor, minor)

\* The spacing has been asked for at the threshold 2.5, where the finest
\* minor spacing starts.
C12_Witness ==
  /\ ProbeOf("calculateOptimalTickSpacing")
  /\ probe.zoomScale = Rat(5, 2)
  /\ probe.result.minor = Rat(1, 5)

\* The unit vector of a whole-degree extreme angle.
Direction(angle) ==
  CASE angle = 0 -> <<1, 0>> [] angle = 90 -> <<0, 1>>
    [] angle = 180 -> <<-1, 0>> [] angle = 270 -> <<0, -1>>

\* The angle lies on the arc swept counter-clockwise from start to end.
OnArc(angle, start, end) == (angle - start) % 360 <= (end - start) % 360

\* Decimal texts of the data as numbers; a centre left out is the origin.
NumberOf(text) == IF text = Null THEN Num(0) ELSE Rat(text[1], Pow10(text[2]))

\* The points the statement puts in the box for one dig line.
BoxPoints(g) ==
  {<<NumberOf(g.sx), NumberOf(g.sy)>>, <<NumberOf(g.ex), NumberOf(g.ey)>>}
  \cup
  IF g.r # Null /\ g.startAngle # Null /\ g.endAngle # Null
  THEN {<<RAdd(NumberOf(g.x), RMul(NumberOf(g.r), Num(Direction(a)[1]))),
          RAdd(NumberOf(g.y), RMul(NumberOf(g.r), Num(Direction(a)[2])))>> :
          a \in {b \in {0, 90, 180, 270} : OnArc(b, g.startAngle[1], g.endAngle[1])}}
  ELSE {}

StoredTruthy(entry, key) ==
  \E member \in entry[2] : member[1] = key /\ member[2] = "truthy"

StoredValue(entry, key) == (CHOOSE member \in entry[2] : member[1] = key)[3]

\* The element has the members of its stored form, and no others.
ElementAsStored(element, stored) ==
  \A key \in ElementKeys :
    IF \E pair \in stored : pair[1] = key
    THEN element[key] = (CHOOSE pair \in stored : pair[1] = key)[2]
    ELSE element[key] = Undefined

\* C14: loadPersistedData returns data with its four fields whatever the
\* entry is; the default data when there is no entry, when reading throws,
\* when the text is not JSON or spells null; and for a stored object each
\* field as stored, or its default when the member is missing or falsy.
C14_LoadFallsBackToDefaults ==
  ProbeOf("loadPersistedData") =>
    LET entry == probe.entry
        result == probe.result
    IN  /\ DOMAIN result = DataKeys
        /\ entry[1] \in {"no entry", "getItem throws", "invalid json", "null"} =>
             /\ result.axis = "visible"
             /\ result.initialOutline = [digLines |-> <<>>, blastingDesignLibraryParts |-> <<>>]
             /\ result.userElements = <<>>
             /\ result.selectedIds = <<>>
        /\ entry[1] = "object" =>
             /\ result.axis = IF StoredTruthy(entry, "axis")
                               THEN StoredValue(entry, "axis") ELSE "visible"
             /\ result.initialOutline =
                  IF StoredTruthy(entry, "initialOutline")
                  THEN StoredValue(entry, "initialOutline")
                  ELSE [digLines |-> <<>>, blastingDesignLibraryParts |-> <<>>]
             /\ IF StoredTruthy(entry, "userElements")
                THEN /\ Len(result.userElements) = Len(StoredValue(entry, "userElements"))
                     /\ \A i \in 1..Len(result.userElements) :
                          ElementAsStored(result.userElements[i],
                                          StoredValue(entry, "userElements")[i])
                ELSE result.userElements = <<>>
             /\ result.selectedIds = IF StoredTruthy(entry, "selectedIds")
                                      THEN StoredValue(entry, "selectedIds") ELSE <<>>

\* An object whose axis is the falsy 0 and whose elements are stored has been
\* loaded: the axis is the default one, the element the stored one.
C14_Witness ==
  /\ ProbeOf("loadPersistedData")
  /\ probe.entry[1] = "object"
  /\ <<"axis", "falsy", "0">> \in probe.entry[2]
  /\ probe.result.axis = "visible"
  /\ Len(probe.result.userElements) = 1
  /\ probe.result.userElements[1].width = Num(2)

\* A step of a store action that ends in saveData().
SavingStep ==
  \/ \E element \in StoreElements : StoreAddElement(element)
  \/ \E id \in StoreIds : StoreRemoveElement(id)
  \/ \E id \in StoreIds, updates \in StoreUpdates :
       updateElementFound(data, id) /\ StoreUpdateElement(id, updates)
  \/ StoreClearUserElements

Idle ==
  /\ ~isCurrentlyDrawing /\ ~isDraggingElement /\ ~isDraggingHandle
  /\ draggedElementId = NoElementId
  /\ draggedHandleType = "null"
  /\ handleStartData = Null
  /\ dragStartPoint = Null
  /\ elementStartPosition = Null

\* C16: every mouseup that handleMouseUp handles leaves the controller idle,
\* and clears the start point of a LINE, CIRCLE or RECTANGLE drawing that
\* was under way (a press with the POINT tool leaves its start point).
C16_MouseUpLeavesIdle ==
  [][(\E p \in Pixels : MouseUp(p)) /\ panGesture = Null
       => Idle' /\ (isCurrentlyDrawing => drawingStartPoint' = Null)]_vars

\* The click about to be sent ends a click gesture on an element in SELECT
\* mode: the press was handled by handleElementMouseDown, the mouseup by
\* handleMouseUp, which ended the drag, and the click goes to the element.
ElementClickGesture ==
  /\ mouse.click # Null
  /\ mouse.click.kind = "element"
  /\ mouse.click.tool = SELECT
  /\ currentTool = SELECT
  /\ ~isDraggingElement

\* C17: the Ctrl/Cmd click gesture on an element that was not selected
\* leaves it selected together with every element selected before; the
\* gesture without modifier leaves it the only selected element.
C17_CtrlClickAddsToSelection ==
  [][\A ctrlOrMeta \in BOOLEAN :
       ElementClickGesture /\ Click(ctrlOrMeta)
       /\ ~Includes(mouse.click.selectedIds, mouse.click.elementId)
       => IF ctrlOrMeta
          THEN /\ Includes(data'.selectedIds, mouse.click.elementId)
               /\ \A id \in SeqToSet(mouse.click.selectedIds) :
                    Includes(data'.selectedIds, id)
          ELSE data'.selectedIds = <<mouse.click.elementId>>]_vars

\* C18: the click gesture without modifier toggles the element: selected
\* after it exactly when it was not selected before it.
C18_ClickTogglesSelection ==
  [][ElementClickGesture /\ Click(FALSE)
       => (Includes(data'.selectedIds, mouse.click.elementId)
             <=> ~Includes(mouse.click.selectedIds, mouse.click.elementId))]_vars

\* The states in which the zoom filter turns mouse events away.
WheelOnly == isDrawingTool(currentTool) \/ isDraggingElement \/ isDraggingHandle

\* A mouse button or mouse move event over the svg, or a lost mouseup.
MouseEvent ==
  \/ \E p \in Pixels : \/ MouseDownOnSvg(p) \/ MouseDownOnElement(p)
                        \/ MouseDownOnHandle(p) \/ MouseMove(p) \/ MouseUp(p)
  \/ MouseUpOutside

\* C19: the zoom filter accepts a wheel event in every state and a
\* mousedown exactly when no drawing tool is active and no element or
\* handle is dragged; while a drawing tool is active or an element or a
\* handle is dragged, no mouse event changes the viewport transform.
C19_FilterKeepsViewportWhileDrawing ==
  /\ [](\A tool \in {SELECT, POINT, LINE, CIRCLE, RECTANGLE},
           draggingElement \in BOOLEAN, draggingHandle \in BOOLEAN :
          /\ ZoomFilter(tool, draggingElement, draggingHandle, "wheel")
          /\ ZoomFilter(tool, draggingElement, draggingHandle, "mousedown")
               <=> ~(isDrawingTool(tool) \/ draggingElement \/ draggingHandle))
  /\ [][\A p \in Pixels : MouseDownOnSvg(p) => (panGesture' # Null <=> ~WheelOnly)]_vars
  /\ [][WheelOnly /\ MouseEvent => transform' = transform]_vars

\* The data position of the corner of a rectangle at which
\* renderRectangleControls draws the handle of the given type.
CornerOf(element, handleType) ==
  LET scales == setupScales(Num(InitialSize[1]), Num(InitialSize[2]))
      handles == renderRectangleControls(element, scales.xScale, scales.yScale)
      handle == handles[CHOOSE i \in DOMAIN handles : handles[i].type = handleType]
  IN  CHOOSE corner \in {element.x, RAdd(element.x, element.width)}
                         \X {element.y, RAdd(element.y, element.height)} :
        /\ ScaleApply(scales.xScale, corner[1]) = handle.x
        /\ ScaleApply(scales.yScale, corner[2]) = handle.y

OppositeHandle(handleType) ==
  CASE handleType = "resize-tl" -> "resize-br"
    [] handleType = "resize-tr" -> "resize-bl"
    [] handleType = "resize-bl" -> "resize-tr"
    [] handleType = "resize-br" -> "resize-tl"

\* C20: after a resize by a corner handle the rectangle has non-negative
\* width and height, the corner opposite the grabbed handle at drag start is
\* still a corner of it, and the corner diagonally opposite that one is at
\* the pointer, on whichever side of the fixed corner the pointer is.
C20_ResizeKeepsOppositeCorner ==
  ProbeOf("updateRectangleByHandle") =>
    LET fixed == CornerOf(probe.originalData, OppositeHandle(probe.handleType))
        rect == probe.result
    IN  /\ RLe(Num(0), rect.width) /\ RLe(Num(0), rect.height)
        /\ rect.x = RMin(fixed[1], probe.currentMouseX)
        /\ rect.y = RMin(fixed[2], probe.currentMouseY)
        /\ RAdd(rect.x, rect.width) = RMax(fixed[1], probe.currentMouseX)
        /\ RAdd(rect.y, rect.height) = RMax(fixed[2], probe.currentMouseY)

\* The radius the statement gives a circle or point after a resize step.
RadiusAfter(minimum, original, displacement) ==
  IF RLe(minimum, RAdd(original, displacement)) THEN RAdd(original, displacement)
  ELSE minimum

\* C21: after a resize step by a control handle a rectangle is at least
\* 0.1 wide and high, a circle has a radius of at least 0.1 and a point one
\* of at least 0.05, the radius being the larger of the minimum and the
\* radius at drag start plus the pointer's horizontal displacement.
C21_ResizeRespectsMinimumSize ==
  /\ ProbeOf("updateRectangleByHandle")
       => /\ RLe(Rat(1, 10), probe.result.width)
          /\ RLe(Rat(1, 10), probe.result.height)
  /\ ProbeOf("updateCircleByHandle") /\ probe.handleType = "circle-resize"
       => /\ RLe(Rat(1, 10), probe.result.radius)
          /\ probe.result.radius =
               RadiusAfter(Rat(1, 10), ToNumber(probe.originalData.radius),
                           RSub(probe.currentX, probe.startX))
  /\ ProbeOf("updatePointByHandle") /\ probe.handleType = "point-resize"
       => /\ RLe(Rat(5, 100), probe.result.radius)
          /\ probe.result.radius =
               RadiusAfter(Rat(5, 100), ToNumber(probe.originalData.radius),
                           RSub(probe.currentX, probe.startX))

\* An element moved as a whole so that its position is (x, y).
Translated(element, x, y) ==
  [element EXCEPT !.x = x, !.y = y,
                  !.x2 = IF element.type = "line"
                         THEN RAdd(x, RSub(element.x2, element.x)) ELSE @,
                  !.y2 = IF element.type = "line"
                         THEN RAdd(y, RSub(element.y2, element.y)) ELSE @]

\* C22: after any sequence of element-drag mousemoves the dragged element
\* is the one of the drag start translated by the last pointer position's
\* offset from the press (so its line vector, width, height and radius are
\* those of the drag start, and the path does not matter), and every other
\* element is as it was.
C22_DragOnlyTranslates ==
  ProbeOf("handleMouseMove") =>
    /\ Len(data.userElements) = Len(probe.userElements)
    /\ \A i \in DOMAIN probe.userElements :
         data.userElements[i] =
           IF probe.userElements[i].id = draggedElementId
           THEN Translated(probe.userElements[i],
                           RAdd(elementStartPosition.x,
                                RSub(probe.at.x, dragStartPoint.x)),
                           RAdd(elementStartPosition.y,
                                RSub(probe.at.y, dragStartPoint.y)))
           ELSE probe.userElements[i]

\* A line has been dragged away from where it was.
C22_Witness ==
  /\ ProbeOf("handleMouseMove")
  /\ \E i \in DOMAIN data.userElements :
       /\ data.userElements[i].id = draggedElementId
       /\ data.userElements[i].type = "line"
       /\ data.userElements[i].x # probe.userElements[i].x
       /\ data.userElements[i].y # probe.userElements[i].y

\* C23: selectedIds holds no id twice, and every id in it is the id of an
\* element of userElements.
C23_SelectionRefersToElements ==
  /\ \A i, j \in DOMAIN data.selectedIds :
       i # j => data.selectedIds[i] # data.selectedIds[j]
  /\ \A i \in DOMAIN data.selectedIds :
       FindIndex(data.userElements, data.selectedIds[i]) > 0

\* C24: the store's isDrawing flag equals the controller's
\* isCurrentlyDrawing flag.
C24_DrawingFlagsAgree == isDrawing = isCurrentlyDrawing

\* What one call of toggleTool does, as the statement has it.
ToggleToolStep(tool) ==
  ToggleTool(tool) =>
    /\ currentTool' = IF currentTool = tool THEN SELECT ELSE tool
    /\ ~isDrawing'
    /\ data'.selectedIds = IF currentTool' = SELECT THEN <<>> ELSE data.selectedIds
    /\ data'.userElements = data.userElements

\* C25: toggleTool(t) sets the tool to SELECT when it was t and to t
\* otherwise, clears isDrawing, empties selectedIds exactly when the result
\* is SELECT and leaves userElements alone; a second toggleTool(t) after it
\* always ends in SELECT.
C25_ToggleTwiceEndsInSelect ==
  [][\A tool \in DrawingTools :
       /\ ToggleToolStep(tool)
       /\ ToggleTool(tool) => toggleTool(currentTool', tool) = SELECT]_vars

\* C25, amended: a second toggleTool(t) ends in SELECT when the tool was
\* not t before the first call, and in t when it was.
C25_ToggleTwiceRestoresTool ==
  [][\A tool \in DrawingTools :
       /\ ToggleToolStep(tool)
       /\ ToggleTool(tool) =>
            toggleTool(currentTool', tool) = IF currentTool = tool THEN tool
                                             ELSE SELECT]_vars

\* A drawing tool was toggled on while an element was selected, and the
\* selection was kept.
C25_Witness ==
  /\ isDrawingTool(currentTool)
  /\ data.selectedIds # <<>>
  /\ operations > 0

\* The ids of the elements of userElements, in order.
ElementIds(d) == [i \in DOMAIN d.userElements |-> d.userElements[i].id]

\* C26: a mouse event (mousedown on svg, element or handle, mousemove,
\* mouseup, click) handled while the tool is SELECT and no drawing is in
\* progress leaves no drawing in progress and neither adds an element to
\* userElements nor removes one; so no sequence of such events from an idle
\* controller does.
C26_SelectModeKeepsElements ==
  [][(MouseEvent \/ \E ctrlOrMeta \in BOOLEAN : Click(ctrlOrMeta))
       /\ currentTool = SELECT /\ ~isCurrentlyDrawing
       => ~isCurrentlyDrawing' /\ ElementIds(data') = ElementIds(data)]_vars

\* In SELECT mode, with an element on the canvas, a click on the background
\* is about to be handled.
C26_Witness ==
  /\ currentTool = SELECT
  /\ ~isCurrentlyDrawing
  /\ data.userElements # <<>>
  /\ mouse.click # Null
  /\ mouse.click.kind = "svg"

\* The scale the statement gives the fitted transform.
FitScale(testData) ==
  LET bounds == calculateBounds(testData)
      boundsHeight == RSub(bounds.maxY, bounds.minY)
      targetHeight ==
        RDiv(RMul(RSub(RSub(Num(height), margin.top), margin.bottom), Num(2)), Num(3))
      scale == RDiv(targetHeight, RMul(boundsHeight, baseUnitPixels))
  IN  IF RLt(scale, Rat(1, 3)) THEN Rat(1, 3)
      ELSE IF RLt(Num(3), scale) THEN Num(3) ELSE scale

\* The outline has no usable extent.
NoExtent(testData) ==
  LET bounds == calculateBounds(testData)
  IN  \/ Len(testData.digLines) = 0
      \/ bounds.maxX = bounds.minX
      \/ bounds.maxY = bounds.minY

\* C27: loading an outline without usable extent (no dig lines, or a
\* bounding box of zero width or height) changes neither the transform nor
\* the cached initialTransform and starts no transition; loading any other
\* outline caches a transform of the stated scale and starts the transition
\* to it.
C27_FitToViewNeedsExtent ==
  [][\A testData \in FitInputs :
       LoadTestData(testData) /\ svg
       => /\ transform' = transform
          /\ IF NoExtent(testData)
             THEN /\ initialTransform' = initialTransform
                  /\ zoomTransition' = zoomTransition
             ELSE /\ initialTransform' # Null
                  /\ initialTransform'.k = FitScale(testData)
                  /\ zoomTransition' = initialTransform']_vars

====
